---- MODULE Spec2Model ----
(***************************************************************************)
(* Verification model of the otodom listing parser                        *)
(* (src/realestateai/data/scrapers/new_hard_scrapper.py).                  *)
(*                                                                         *)
(* Python values are tagged records [t |-> tag, v |-> content]:            *)
(*   "null"  None            "bool"  True/False      "int"   integer       *)
(*   "float" <<n, d>> = n/d with d a power of ten, in lowest decimal form  *)
(*   "str"   a sequence of characters (each character a one-token string)  *)
(*   "list"  a sequence of values     "dict"  a function key -> value      *)
(*   "raise" an exception that left the function (v = its type)            *)
(***************************************************************************)
EXTENDS Integers, Sequences, FiniteSets, TLC

VARIABLES
    pc,           \* "start" before the call under study, "done" after it
    text,         \* argument of _parse_int / _parse_float
    parsed,       \* their results
    html_text,    \* argument of parse_otodom_html_v2: the page
    keep_ad_raw,  \* argument of parse_otodom_html_v2
    out,          \* its result
    chars,        \* argument of _characteristics_to_map
    char_map,     \* its result
    items,        \* argument of _info_list_to_kv
    info_kv,      \* its result
    payload,      \* argument of ExtractPayload.proccess: one stored payload
    reversed,     \* whether its dicts iterate in the reverse of the reference order
    record,       \* result of ExtractPayload.proccess
    listings_bronze,  \* the rows of the table listings_bronze
    id_seq,       \* last value drawn from the sequence behind listings_bronze.id
    upserts,      \* the calls of upsert_broze_parsing so far, with their results
    payload_column,  \* argument of process_payloads: the payloads of the batch
    res, \* result of process_payloads
    listing_page,  \* argument of hard_scrapper.parse_html: what the soup of the page holds
    geocode,  \* what geolocator.geocode does when called
    data, \* result of hard_scrapper.parse_html
    upsert_arg,  \* argument of the call of upsert_broze_parsing followed step by step
    engine,  \* whether DATABASE_URL is set, i.e. db.engine is not None
    session_log,  \* what was done to the session of session_scope, in order
    pending,  \* the table as the open transaction sees it
    outcome, \* what the call gave its caller: an id or an exception
    ads,  \* the listings get_urls yields, in order, each with what its url serves
    max_items,  \* min(result_count, MAX_ITEMS) of the run
    loop_i,  \* the loop's i + 1: the position in ads of the listing the loop is at
    max_repeated_ids,  \* the global MAX_REPEATED_IDS, counted down by the loop
    html_files,  \* the rows of the table html_files
    bucket,  \* the objects of the MinIO bucket
    minio_key,  \* the local minio_key of the loop body
    parsed_json,  \* the local parsed_json of the loop body
    trace,  \* the steps the loop bodies have completed, in order
    runs  \* how often the script was started

\* the variables of ExtractPayload.proccess
flattenVars == <<payload, reversed, record>>

\* the variables of upsert_broze_parsing
bronzeVars == <<listings_bronze, id_seq, upserts>>

\* the variables of process_payloads
batchVars == <<payload_column, res>>

\* the variables of hard_scrapper.parse_html
scrapVars == <<listing_page, geocode, data>>

\* the variables of one stepwise call of upsert_broze_parsing
sessionVars == <<upsert_arg, engine, session_log, pending, outcome>>

\* the variables of the scraping loop of scrap_data_sequentially.py
loopVars == <<ads, max_items, loop_i, max_repeated_ids, html_files, bucket, minio_key, parsed_json, trace, runs>>

vars == <<pc, text, parsed, html_text, keep_ad_raw, out, chars, char_map, items, info_kv,
          flattenVars, bronzeVars, batchVars, scrapVars, sessionVars, loopVars>>

(***************************************************************************)
(* Bounds of the explored inputs.                                          *)
(***************************************************************************)
MaxTokens == 4

\* most digits in one text (Python integers are unbounded, the checker's are not)
MaxDigits == 8

\* most entries of a characteristics or information list of irregular shape
MaxEntries == 2

\* most characteristics of a well-formed ad
MaxChars == 3

\* most values of the lift entry
MaxValues == 2

\* most keys of one mapping inside property_raw
MaxProps == 2

\* calls of upsert_broze_parsing in one behaviour
MaxUpserts == 2

\* payloads in one batch of process_payloads
MaxBatch == 3

\* characteristic blocks on one page given to hard_scrapper.parse_html
MaxContainers == 2

(***************************************************************************)
(* Python values.                                                          *)
(***************************************************************************)
None == [t |-> "null", v |-> 0]

PyBool(b) == [t |-> "bool", v |-> b]

PyInt(n) == [t |-> "int", v |-> n]

Str(s) == [t |-> "str", v |-> s]

PyList(s) == [t |-> "list", v |-> s]

PyDict(f) == [t |-> "dict", v |-> f]

Raise(e) == [t |-> "raise", v |-> e]

EmptyDict == PyDict(<<>>)

\* no call of ExtractPayload.proccess is under study
FlattenIdle == payload = None /\ reversed = FALSE /\ record = None

\* no call of upsert_broze_parsing is under study: the table is empty
BronzeIdle == listings_bronze = {} /\ id_seq = 0 /\ upserts = <<>>

\* no call of process_payloads is under study
BatchIdle == payload_column = <<>> /\ res = None

\* no call of hard_scrapper.parse_html is under study
ScrapIdle == listing_page = None /\ geocode = "none" /\ data = None

\* no stepwise call of upsert_broze_parsing is under study
SessionIdle == upsert_arg = None /\ engine = TRUE /\ session_log = <<>> /\ pending = None /\ outcome = None

\* the scraping loop has not run
LoopIdle == ads = <<>> /\ max_items = 0 /\ loop_i = 0 /\ max_repeated_ids = 0 /\ html_files = {} /\ bucket = {} /\ minio_key = None /\ parsed_json = None /\ trace = <<>> /\ runs = 0

\* float(...) of the decimal n/d: trailing zeros of the fraction are dropped
RECURSIVE PyFloat(_, _)
PyFloat(n, d) ==
    IF d > 1 /\ n % 10 = 0 THEN PyFloat(n \div 10, d \div 10)
    ELSE [t |-> "float", v |-> <<n, d>>]

\* bool(x)
Truthy(x) ==
    CASE x.t = "null" -> FALSE
      [] x.t = "bool" -> x.v
      [] x.t = "int" -> x.v # 0
      [] x.t = "float" -> x.v[1] # 0
      [] x.t = "str" -> Len(x.v) > 0
      [] x.t = "list" -> Len(x.v) > 0
      [] x.t = "dict" -> DOMAIN x.v # {}

IsDict(x) == x.t = "dict"

IsList(x) == x.t = "list"

\* the keys a dict can hold: lists and dicts are unhashable
Hashable(x) == x.t \notin {"list", "dict"}

\* d.get(k)
Get(d, k) == IF k \in DOMAIN d.v THEN d.v[k] ELSE None

\* d[k] = x on a dict d
Put(d, k, x) == PyDict([kk \in (DOMAIN d.v) \cup {k} |-> IF kk = k THEN x ELSE d.v[kk]])

(***************************************************************************)
(* Characters and strings.                                                 *)
(***************************************************************************)
NBSP == "nbsp"

SUP2 == "sup2"

Digits == <<"0", "1", "2", "3", "4", "5", "6", "7", "8", "9">>

IsDigit(c) == \E i \in 1..10 : Digits[i] = c

DigitVal(c) == (CHOOSE i \in 1..10 : Digits[i] = c) - 1

\* str.replace(old, new) for single characters
ReplaceChar(s, old, new) == [i \in 1..Len(s) |-> IF s[i] = old THEN new ELSE s[i]]

\* str.replace(old, "") for a single character
RECURSIVE RemoveChar(_, _)
RemoveChar(s, old) ==
    IF s = <<>> THEN <<>>
    ELSE IF Head(s) = old THEN RemoveChar(Tail(s), old)
    ELSE <<Head(s)>> \o RemoveChar(Tail(s), old)

IsSpace(c) == c \in {" ", NBSP}

\* str.strip()
RECURSIVE Strip(_)
Strip(s) ==
    IF s = <<>> THEN s
    ELSE IF IsSpace(s[1]) THEN Strip(Tail(s))
    ELSE IF IsSpace(s[Len(s)]) THEN Strip(SubSeq(s, 1, Len(s) - 1))
    ELSE s

\* int(s) for a string of decimal digits
RECURSIVE DigitsValue(_)
DigitsValue(s) ==
    IF s = <<>> THEN 0
    ELSE 10 * DigitsValue(SubSeq(s, 1, Len(s) - 1)) + DigitVal(s[Len(s)])

RECURSIVE Pow10(_)
Pow10(k) == IF k = 0 THEN 1 ELSE 10 * Pow10(k - 1)

(***************************************************************************)
(* Regular expressions _INT_RE and _FLOAT_RE.                              *)
(***************************************************************************)
\* end of the greedy run \d+ that starts at position i
RECURSIVE DigitRunEnd(_, _)
DigitRunEnd(s, i) ==
    IF i + 1 <= Len(s) /\ IsDigit(s[i + 1]) THEN DigitRunEnd(s, i + 1) ELSE i

\* -?\d+ can match at position i
IntMatchAt(s, i) ==
    \/ IsDigit(s[i])
    \/ s[i] = "-" /\ i + 1 <= Len(s) /\ IsDigit(s[i + 1])

\* _INT_RE.search(s): the leftmost match <<first, last>>, or <<>> if none
IntReSearch(s) ==
    IF \E i \in 1..Len(s) : IntMatchAt(s, i)
    THEN LET i == CHOOSE j \in 1..Len(s) :
                      IntMatchAt(s, j) /\ \A k \in 1..(j - 1) : ~IntMatchAt(s, k)
             b == IF s[i] = "-" THEN i + 1 ELSE i
         IN  <<i, DigitRunEnd(s, b)>>
    ELSE <<>>

\* _FLOAT_RE.search(s): as _INT_RE, then the optional group (?:[.,]\d+)
FloatReSearch(s) ==
    LET m == IntReSearch(s)
    IN  IF m = <<>> THEN <<>>
        ELSE LET e == m[2]
             IN  IF e + 2 <= Len(s) /\ s[e + 1] \in {".", ","} /\ IsDigit(s[e + 2])
                 THEN <<m[1], DigitRunEnd(s, e + 2)>>
                 ELSE m

\* int(g) for a matched group g of _INT_RE
IntOfGroup(g) ==
    IF g[1] = "-" THEN 0 - DigitsValue(Tail(g)) ELSE DigitsValue(g)

\* float(g) for a matched group g of _FLOAT_RE with "," already replaced by "."
FloatOfGroup(g) ==
    LET neg == g[1] = "-"
        u == IF neg THEN Tail(g) ELSE g
        hasDot == \E i \in 1..Len(u) : u[i] = "."
        dot == IF hasDot THEN CHOOSE i \in 1..Len(u) : u[i] = "." ELSE Len(u) + 1
        ip == SubSeq(u, 1, dot - 1)
        fp == SubSeq(u, dot + 1, Len(u))
        n == DigitsValue(ip) * Pow10(Len(fp)) + DigitsValue(fp)
    IN  PyFloat(IF neg THEN 0 - n ELSE n, Pow10(Len(fp)))

(***************************************************************************)
(* _parse_int and _parse_float.                                            *)
(***************************************************************************)
\* _parse_int answering 0 where the text holds no number
_parse_int_zero_default(x) ==
    IF ~Truthy(x) THEN None
    ELSE LET s == ReplaceChar(x.v, NBSP, " ")
             m == IntReSearch(s)
         IN  IF m = <<>> THEN PyInt(0)
             ELSE PyInt(IntOfGroup(SubSeq(s, m[1], m[2])))

_parse_int(x) ==
    IF ~Truthy(x) THEN None
    ELSE LET s == ReplaceChar(x.v, NBSP, " ")
             m == IntReSearch(s)
         IN  IF m = <<>> THEN None
             ELSE PyInt(IntOfGroup(SubSeq(s, m[1], m[2])))

_parse_float(x) ==
    IF ~Truthy(x) THEN None
    ELSE LET s == Strip(ReplaceChar(x.v, NBSP, " "))
             m == FloatReSearch(s)
         IN  IF m = <<>> THEN None
             ELSE LET g == SubSeq(s, m[1], m[2])
                  IN  FloatOfGroup(ReplaceChar(RemoveChar(g, " "), ",", "."))

(***************************************************************************)
(* Numeric extractors applied to texts built from at most MaxTokens tokens. *)
(***************************************************************************)
Tokens ==
    { <<"1", "5">>, <<"2", "6", "7">>, <<"6", "8">>, <<"7", "1">>, <<"0">>,
      <<" ">>, <<NBSP>>, <<",">>, <<".">>, <<"-">>,
      <<" ", "z", "l", "/", "m", SUP2>>, <<" ", "m", SUP2>> }

RECURSIVE Concat(_)
Concat(ts) == IF ts = <<>> THEN <<>> ELSE Head(ts) \o Concat(Tail(ts))

DigitCount(s) == Cardinality({ i \in 1..Len(s) : IsDigit(s[i]) })

Texts ==
    { s \in { Concat(ts) : ts \in UNION { [1..n -> Tokens] : n \in 0..MaxTokens } } :
        DigitCount(s) <= MaxDigits }

InitNum ==
    /\ pc = "start"
    /\ text \in { Str(s) : s \in Texts } \cup {None}
    /\ parsed = None
    /\ html_text = None /\ keep_ad_raw = FALSE /\ out = None
    /\ chars = None /\ char_map = None
    /\ items = None /\ info_kv = None
    /\ FlattenIdle /\ BronzeIdle
    /\ BatchIdle
    /\ ScrapIdle
    /\ SessionIdle
    /\ LoopIdle

\* one call of each extractor on the same text
ParseNumbers ==
    /\ pc = "start"
    /\ parsed' = [int |-> _parse_int(text), float |-> _parse_float(text)]
    /\ pc' = "done"
    /\ UNCHANGED <<text, html_text, keep_ad_raw, out, chars, char_map, items, info_kv>>
    /\ UNCHANGED <<flattenVars, bronzeVars>>
    /\ UNCHANGED batchVars
    /\ UNCHANGED scrapVars
    /\ UNCHANGED sessionVars
    /\ UNCHANGED loopVars

NextNum == ParseNumbers

SpecNum == InitNum /\ [][NextNum]_vars

(***************************************************************************)
(* String literals of the parser, spelled as character sequences.          *)
(***************************************************************************)
Lit ==
    [ props |-> <<"p", "r", "o", "p", "s">>,
      pageProps |-> <<"p", "a", "g", "e", "P", "r", "o", "p", "s">>,
      ad |-> <<"a", "d">>,
      id |-> <<"i", "d">>,
      referenceId |-> <<"r", "e", "f", "e", "r", "e", "n", "c", "e", "I", "d">>,
      slug |-> <<"s", "l", "u", "g">>,
      url |-> <<"u", "r", "l">>,
      status |-> <<"s", "t", "a", "t", "u", "s">>,
      createdAt |-> <<"c", "r", "e", "a", "t", "e", "d", "A", "t">>,
      modifiedAt |-> <<"m", "o", "d", "i", "f", "i", "e", "d", "A", "t">>,
      pushedUpAt |-> <<"p", "u", "s", "h", "e", "d", "U", "p", "A", "t">>,
      title |-> <<"t", "i", "t", "l", "e">>,
      seo |-> <<"s", "e", "o">>,
      description |-> <<"d", "e", "s", "c", "r", "i", "p", "t", "i", "o", "n">>,
      market |-> <<"m", "a", "r", "k", "e", "t">>,
      advertiserType |-> <<"a", "d", "v", "e", "r", "t", "i", "s", "e", "r", "T", "y", "p", "e">>,
      advertType |-> <<"a", "d", "v", "e", "r", "t", "T", "y", "p", "e">>,
      exclusiveOffer |-> <<"e", "x", "c", "l", "u", "s", "i", "v", "e", "O", "f", "f", "e", "r">>,
      creationSource |-> <<"c", "r", "e", "a", "t", "i", "o", "n", "S", "o", "u", "r", "c", "e">>,
      location |-> <<"l", "o", "c", "a", "t", "i", "o", "n">>,
      coordinates |-> <<"c", "o", "o", "r", "d", "i", "n", "a", "t", "e", "s">>,
      latitude |-> <<"l", "a", "t", "i", "t", "u", "d", "e">>,
      longitude |-> <<"l", "o", "n", "g", "i", "t", "u", "d", "e">>,
      address |-> <<"a", "d", "d", "r", "e", "s", "s">>,
      street |-> <<"s", "t", "r", "e", "e", "t">>,
      number |-> <<"n", "u", "m", "b", "e", "r">>,
      district |-> <<"d", "i", "s", "t", "r", "i", "c", "t">>,
      city |-> <<"c", "i", "t", "y">>,
      county |-> <<"c", "o", "u", "n", "t", "y">>,
      province |-> <<"p", "r", "o", "v", "i", "n", "c", "e">>,
      postalCode |-> <<"p", "o", "s", "t", "a", "l", "C", "o", "d", "e">>,
      name |-> <<"n", "a", "m", "e">>,
      images |-> <<"i", "m", "a", "g", "e", "s">>,
      small |-> <<"s", "m", "a", "l", "l">>,
      features |-> <<"f", "e", "a", "t", "u", "r", "e", "s">>,
      featuresByCategory |-> <<"f", "e", "a", "t", "u", "r", "e", "s", "B", "y", "C", "a", "t", "e", "g", "o", "r", "y">>,
      label |-> <<"l", "a", "b", "e", "l">>,
      values |-> <<"v", "a", "l", "u", "e", "s">>,
      featuresWithoutCategory |-> <<"f", "e", "a", "t", "u", "r", "e", "s", "W", "i", "t", "h", "o", "u", "t", "C", "a", "t", "e", "g", "o", "r", "y">>,
      owner |-> <<"o", "w", "n", "e", "r">>,
      agency |-> <<"a", "g", "e", "n", "c", "y">>,
      type |-> <<"t", "y", "p", "e">>,
      phones |-> <<"p", "h", "o", "n", "e", "s">>,
      imageUrl |-> <<"i", "m", "a", "g", "e", "U", "r", "l">>,
      characteristics |-> <<"c", "h", "a", "r", "a", "c", "t", "e", "r", "i", "s", "t", "i", "c", "s">>,
      topInformation |-> <<"t", "o", "p", "I", "n", "f", "o", "r", "m", "a", "t", "i", "o", "n">>,
      additionalInformation |-> <<"a", "d", "d", "i", "t", "i", "o", "n", "a", "l", "I", "n", "f", "o", "r", "m", "a", "t", "i", "o", "n">>,
      key |-> <<"k", "e", "y">>,
      value |-> <<"v", "a", "l", "u", "e">>,
      localizedValue |-> <<"l", "o", "c", "a", "l", "i", "z", "e", "d", "V", "a", "l", "u", "e">>,
      currency |-> <<"c", "u", "r", "r", "e", "n", "c", "y">>,
      unit |-> <<"u", "n", "i", "t">>,
      localized |-> <<"l", "o", "c", "a", "l", "i", "z", "e", "d">>,
      property |-> <<"p", "r", "o", "p", "e", "r", "t", "y">>,
      source |-> <<"s", "o", "u", "r", "c", "e">>,
      next_data_present |-> <<"n", "e", "x", "t", "_", "d", "a", "t", "a", "_", "p", "r", "e", "s", "e", "n", "t">>,
      next_data |-> <<"n", "e", "x", "t", "_", "d", "a", "t", "a">>,
      ad_raw |-> <<"a", "d", "_", "r", "a", "w">>,
      ad_id |-> <<"a", "d", "_", "i", "d">>,
      reference_id |-> <<"r", "e", "f", "e", "r", "e", "n", "c", "e", "_", "i", "d">>,
      created_at |-> <<"c", "r", "e", "a", "t", "e", "d", "_", "a", "t">>,
      modified_at |-> <<"m", "o", "d", "i", "f", "i", "e", "d", "_", "a", "t">>,
      pushed_up_at |-> <<"p", "u", "s", "h", "e", "d", "_", "u", "p", "_", "a", "t">>,
      seo_title |-> <<"s", "e", "o", "_", "t", "i", "t", "l", "e">>,
      seo_description |-> <<"s", "e", "o", "_", "d", "e", "s", "c", "r", "i", "p", "t", "i", "o", "n">>,
      description_html |-> <<"d", "e", "s", "c", "r", "i", "p", "t", "i", "o", "n", "_", "h", "t", "m", "l">>,
      description_text |-> <<"d", "e", "s", "c", "r", "i", "p", "t", "i", "o", "n", "_", "t", "e", "x", "t">>,
      advertiser_type |-> <<"a", "d", "v", "e", "r", "t", "i", "s", "e", "r", "_", "t", "y", "p", "e">>,
      advert_type |-> <<"a", "d", "v", "e", "r", "t", "_", "t", "y", "p", "e">>,
      exclusive_offer |-> <<"e", "x", "c", "l", "u", "s", "i", "v", "e", "_", "o", "f", "f", "e", "r">>,
      creation_source |-> <<"c", "r", "e", "a", "t", "i", "o", "n", "_", "s", "o", "u", "r", "c", "e">>,
      street_number |-> <<"s", "t", "r", "e", "e", "t", "_", "n", "u", "m", "b", "e", "r">>,
      postal_code |-> <<"p", "o", "s", "t", "a", "l", "_", "c", "o", "d", "e">>,
      location_text |-> <<"l", "o", "c", "a", "t", "i", "o", "n", "_", "t", "e", "x", "t">>,
      images_small |-> <<"i", "m", "a", "g", "e", "s", "_", "s", "m", "a", "l", "l">>,
      images_count |-> <<"i", "m", "a", "g", "e", "s", "_", "c", "o", "u", "n", "t">>,
      features_by_category |-> <<"f", "e", "a", "t", "u", "r", "e", "s", "_", "b", "y", "_", "c", "a", "t", "e", "g", "o", "r", "y">>,
      features_without_category |-> <<"f", "e", "a", "t", "u", "r", "e", "s", "_", "w", "i", "t", "h", "o", "u", "t", "_", "c", "a", "t", "e", "g", "o", "r", "y">>,
      agency_name |-> <<"a", "g", "e", "n", "c", "y", "_", "n", "a", "m", "e">>,
      char |-> <<"c", "h", "a", "r">>,
      top_info |-> <<"t", "o", "p", "_", "i", "n", "f", "o">>,
      additional_info |-> <<"a", "d", "d", "i", "t", "i", "o", "n", "a", "l", "_", "i", "n", "f", "o">>,
      price_pln |-> <<"p", "r", "i", "c", "e", "_", "p", "l", "n">>,
      area_m2 |-> <<"a", "r", "e", "a", "_", "m", "2">>,
      price_per_m2_pln |-> <<"p", "r", "i", "c", "e", "_", "p", "e", "r", "_", "m", "2", "_", "p", "l", "n">>,
      rooms |-> <<"r", "o", "o", "m", "s">>,
      building_floors |-> <<"b", "u", "i", "l", "d", "i", "n", "g", "_", "f", "l", "o", "o", "r", "s">>,
      year_built |-> <<"y", "e", "a", "r", "_", "b", "u", "i", "l", "t">>,
      rent_pln |-> <<"r", "e", "n", "t", "_", "p", "l", "n">>,
      floor |-> <<"f", "l", "o", "o", "r">>,
      lift |-> <<"l", "i", "f", "t">>,
      property_raw |-> <<"p", "r", "o", "p", "e", "r", "t", "y", "_", "r", "a", "w">>,
      price |-> <<"p", "r", "i", "c", "e">>,
      m |-> <<"m">>,
      price_per_m |-> <<"p", "r", "i", "c", "e", "_", "p", "e", "r", "_", "m">>,
      rooms_num |-> <<"r", "o", "o", "m", "s", "_", "n", "u", "m">>,
      building_floors_num |-> <<"b", "u", "i", "l", "d", "i", "n", "g", "_", "f", "l", "o", "o", "r", "s", "_", "n", "u", "m">>,
      build_year |-> <<"b", "u", "i", "l", "d", "_", "y", "e", "a", "r">>,
      rent |-> <<"r", "e", "n", "t">>,
      floor_no |-> <<"f", "l", "o", "o", "r", "_", "n", "o">>,
      otodom |-> <<"o", "t", "o", "d", "o", "m">> ]

\* the Python string written name in the source
K(name) == Str(Lit[name])

\* a dict literal {k1: v1, ...} given as a sequence of <<key, value>> pairs
DictOf(pairs) ==
    PyDict([k \in { pairs[i][1] : i \in DOMAIN pairs } |->
               pairs[CHOOSE i \in DOMAIN pairs :
                         /\ pairs[i][1] = k
                         /\ \A j \in DOMAIN pairs : j > i => pairs[j][1] # k][2]])

(***************************************************************************)
(* str(x), str.lower, str.join, substring test.                            *)
(***************************************************************************)
RECURSIVE NatToStr(_)
NatToStr(n) ==
    IF n < 10 THEN <<Digits[n + 1]>>
    ELSE NatToStr(n \div 10) \o <<Digits[(n % 10) + 1]>>

IntToStr(n) == IF n < 0 THEN <<"-">> \o NatToStr(0 - n) ELSE NatToStr(n)

\* the digits of the fraction f/d, d a power of ten
RECURSIVE FracStr(_, _)
FracStr(f, d) ==
    IF d = 1 THEN <<>> ELSE FracStr(f \div 10, d \div 10) \o <<Digits[(f % 10) + 1]>>

FloatToStr(n, d) ==
    LET a == IF n < 0 THEN 0 - n ELSE n
    IN  (IF n < 0 THEN <<"-">> ELSE <<>>) \o NatToStr(a \div d) \o <<".">>
            \o (IF d = 1 THEN <<"0">> ELSE FracStr(a % d, d))

\* str(x) of a scalar
PyStr(x) ==
    CASE x.t = "str" -> x.v
      [] x.t = "int" -> IntToStr(x.v)
      [] x.t = "float" -> FloatToStr(x.v[1], x.v[2])
      [] x.t = "null" -> <<"N", "o", "n", "e">>
      [] x.t = "bool" -> IF x.v THEN <<"T", "r", "u", "e">> ELSE <<"F", "a", "l", "s", "e">>

Upper == <<"A", "B", "C", "D", "E", "F", "G", "H", "I", "J", "K", "L", "M",
           "N", "O", "P", "Q", "R", "S", "T", "U", "V", "W", "X", "Y", "Z">>

Lower == <<"a", "b", "c", "d", "e", "f", "g", "h", "i", "j", "k", "l", "m",
           "n", "o", "p", "q", "r", "s", "t", "u", "v", "w", "x", "y", "z">>

LowerChar(c) ==
    IF \E i \in 1..26 : Upper[i] = c
    THEN Lower[CHOOSE i \in 1..26 : Upper[i] = c]
    ELSE c

\* s.lower()
StrLower(s) == [i \in 1..Len(s) |-> LowerChar(s[i])]

\* sep.join(parts) for strings given as character sequences
RECURSIVE JoinWith(_, _)
JoinWith(parts, sep) ==
    IF parts = <<>> THEN <<>>
    ELSE IF Len(parts) = 1 THEN parts[1]
    ELSE parts[1] \o sep \o JoinWith(Tail(parts), sep)

\* sub in s
Contains(s, sub) ==
    \E i \in 1..(Len(s) - Len(sub) + 1) : SubSeq(s, i, i + Len(sub) - 1) = sub

(***************************************************************************)
(* _safe_get, _clean_text, _extract_next_data.                             *)
(***************************************************************************)
RECURSIVE _safe_get(_, _, _)
_safe_get(obj, path, default) ==
    IF path = <<>> THEN obj
    ELSE LET p == Head(path)
             found ==
                 IF IsDict(obj) THEN <<Get(obj, p)>>
                 ELSE IF IsList(obj) /\ p.t = "int"
                 THEN IF p.v >= 0 /\ p.v < Len(obj.v) THEN <<obj.v[p.v + 1]>>
                      ELSE IF p.v < 0 /\ 0 - p.v <= Len(obj.v)
                      THEN <<obj.v[Len(obj.v) + p.v + 1]>>
                      ELSE <<>>
                 ELSE <<>>
         IN  IF found = <<>> THEN default
             ELSE IF found[1] = None THEN default
             ELSE _safe_get(found[1], Tail(path), default)

\* re.sub(r"\s+", " ", s)
RECURSIVE CollapseSpaces(_)
CollapseSpaces(s) ==
    IF s = <<>> THEN <<>>
    ELSE IF IsSpace(s[1])
    THEN IF Len(s) > 1 /\ IsSpace(s[2]) THEN CollapseSpaces(Tail(s))
         ELSE <<" ">> \o CollapseSpaces(Tail(s))
    ELSE <<s[1]>> \o CollapseSpaces(Tail(s))

_clean_text(x) ==
    IF ~Truthy(x) THEN None
    ELSE LET r == Strip(CollapseSpaces(PyStr(x)))
         IN  IF r = <<>> THEN None ELSE Str(r)

(***************************************************************************)
(* A fetched page, as BeautifulSoup and json.loads see it:                 *)
(*   script = "absent"   no script element with id __NEXT_DATA__           *)
(*            "empty"    the element has no string                         *)
(*            "invalid"  its string is not valid JSON                      *)
(*            "json"     its string is the JSON text of data               *)
(***************************************************************************)
\* _extract_next_data without its try/except around json.loads
_extract_next_data_no_try(soup) ==
    IF soup.script \in {"absent", "empty"} THEN None
    ELSE IF soup.script = "invalid" THEN Raise("JSONDecodeError")
    ELSE soup.data

_extract_next_data(soup) ==
    IF soup.script \in {"absent", "empty"} THEN None
    ELSE IF soup.script = "invalid" THEN None
    ELSE soup.data

(***************************************************************************)
(* BeautifulSoup(markup, "html.parser").get_text(" ") for a markup whose   *)
(* tags are the single tokens of Tags: the text nodes joined by " ".       *)
(***************************************************************************)
Tags == {"<b>", "</b>", "<br>"}

RECURSIVE TextRunEnd(_, _)
TextRunEnd(s, i) ==
    IF i + 1 <= Len(s) /\ s[i + 1] \notin Tags THEN TextRunEnd(s, i + 1) ELSE i

RECURSIVE TextNodes(_)
TextNodes(s) ==
    IF s = <<>> THEN <<>>
    ELSE IF s[1] \in Tags THEN TextNodes(Tail(s))
    ELSE LET e == TextRunEnd(s, 1)
         IN  <<SubSeq(s, 1, e)>> \o TextNodes(SubSeq(s, e + 1, Len(s)))

\* the markup must be a string: len() of a number or a boolean raises
SoupGetText(markup) ==
    IF markup.t = "str" THEN Str(JoinWith(TextNodes(markup.v), <<" ">>))
    ELSE Raise("TypeError")

(***************************************************************************)
(* _info_list_to_kv, _characteristics_to_map, _parse_bool_from_info_value. *)
(***************************************************************************)
\* {"values": it.get("values") if isinstance(it.get("values"), list) else []}
InfoEntry(it) ==
    DictOf(<< <<K("values"),
                IF IsList(Get(it, K("values"))) THEN Get(it, K("values")) ELSE PyList(<<>>)>> >>)

\* if out[label].get("unit"): out[label]["unit"] = it.get("unit")
InfoEntryUnit(entry, it) ==
    IF Truthy(Get(entry, K("unit"))) THEN Put(entry, K("unit"), Get(it, K("unit")))
    ELSE entry

RECURSIVE InfoLoop(_, _)
InfoLoop(items_, out_) ==
    IF items_ = <<>> THEN out_
    ELSE LET it == Head(items_)
             label == Get(it, K("label"))
         IN  IF ~IsDict(it) THEN InfoLoop(Tail(items_), out_)
             ELSE IF ~Truthy(label) THEN InfoLoop(Tail(items_), out_)
             ELSE IF ~Hashable(label) THEN Raise("TypeError")
             ELSE InfoLoop(Tail(items_), Put(out_, label, InfoEntryUnit(InfoEntry(it), it)))

_info_list_to_kv(items_) ==
    IF ~IsList(items_) THEN EmptyDict ELSE InfoLoop(items_.v, EmptyDict)

\* {"value": ..., "localized": ...} and the currency when it is truthy
CharEntry(ch) ==
    LET e == DictOf(<< <<K("value"), Get(ch, K("value"))>>,
                       <<K("localized"), Get(ch, K("localizedValue"))>> >>)
    IN  IF Truthy(Get(ch, K("currency")))
        THEN Put(e, K("currency"), Get(ch, K("currency")))
        ELSE e

RECURSIVE CharLoop(_, _)
CharLoop(chs, out_) ==
    IF chs = <<>> THEN out_
    ELSE LET ch == Head(chs)
             k == Get(ch, K("key"))
         IN  IF ~IsDict(ch) THEN CharLoop(Tail(chs), out_)
             ELSE IF ~Truthy(k) THEN CharLoop(Tail(chs), out_)
             ELSE IF ~Hashable(k) THEN Raise("TypeError")
             ELSE CharLoop(Tail(chs), Put(out_, k, CharEntry(ch)))

_characteristics_to_map(chars_) ==
    IF ~IsList(chars_) THEN EmptyDict ELSE CharLoop(chars_.v, EmptyDict)

\* " ".join([str(v) for v in values]).lower()
JoinedLower(values_) ==
    StrLower(JoinWith([i \in 1..Len(values_) |-> PyStr(values_[i])], <<" ">>))

_parse_bool_from_info_value(values_) ==
    LET joined == JoinedLower(values_)
    IN  IF \/ Contains(joined, <<":", ":", "n">>)
           \/ Contains(joined, <<"n", "o">>)
           \/ Contains(joined, <<":", ":", "0">>)
        THEN PyBool(FALSE)
        ELSE IF \/ Contains(joined, <<":", ":", "y">>)
                \/ Contains(joined, <<"y", "e", "s">>)
                \/ Contains(joined, <<":", ":", "1">>)
        THEN PyBool(TRUE)
        ELSE None

(***************************************************************************)
(* parse_otodom_html_v2.                                                   *)
(***************************************************************************)
\* x or y
Or(x, y) == IF Truthy(x) THEN x ELSE y

\* d.get(k) if isinstance(d.get(k), dict) else {}
GetDictOr(d, k) == IF IsDict(Get(d, k)) THEN Get(d, k) ELSE EmptyDict

\* d.get(k) if isinstance(d.get(k), list) else []
GetListOr(d, k) == IF IsList(Get(d, k)) THEN Get(d, k) ELSE PyList(<<>>)

_nm(d) == IF IsDict(d) THEN Get(d, K("name")) ELSE None

\* [x for x in s if test], as the subsequence of the truthy elements
RECURSIVE TruthyOnly(_)
TruthyOnly(s) ==
    IF s = <<>> THEN <<>>
    ELSE IF Truthy(Head(s)) THEN <<Head(s)>> \o TruthyOnly(Tail(s))
    ELSE TruthyOnly(Tail(s))

\* ", ".join(loc_parts) if loc_parts else None; join raises on a non-string
LocationText(parts) ==
    LET loc_parts == TruthyOnly(parts)
    IN  IF loc_parts = <<>> THEN None
        ELSE IF \E i \in 1..Len(loc_parts) : loc_parts[i].t # "str" THEN Raise("TypeError")
        ELSE Str(JoinWith([i \in 1..Len(loc_parts) |-> loc_parts[i].v], <<",", " ">>))

\* [img.get("small") for img in images if isinstance(img, dict) and img.get("small")]
RECURSIVE ImagesSmall(_)
ImagesSmall(images) ==
    IF images = <<>> THEN <<>>
    ELSE LET img == Head(images)
         IN  IF IsDict(img) /\ Truthy(Get(img, K("small")))
             THEN <<Get(img, K("small"))>> \o ImagesSmall(Tail(images))
             ELSE ImagesSmall(Tail(images))

RECURSIVE FeaturesByCategory(_, _)
FeaturesByCategory(fbc, out_) ==
    IF fbc = <<>> THEN out_
    ELSE LET g == Head(fbc)
             label == Get(g, K("label"))
             vals == Get(g, K("values"))
         IN  IF ~IsDict(g) THEN FeaturesByCategory(Tail(fbc), out_)
             ELSE IF Truthy(label) /\ IsList(vals)
             THEN IF ~Hashable(label) THEN Raise("TypeError")
                  ELSE FeaturesByCategory(Tail(fbc), Put(out_, label, vals))
             ELSE FeaturesByCategory(Tail(fbc), out_)

\* cval(k) / cloc(k): str of the field of char[k], None when it is missing
cfield(char, k, f) ==
    LET v == Get(IF k \in DOMAIN char.v THEN char.v[k] ELSE EmptyDict, f)
    IN  IF v # None THEN Str(PyStr(v)) ELSE None

cval(char, k) == cfield(char, k, K("value"))

cloc(char, k) == cfield(char, k, K("localized"))

\* cval(k) or cloc(k)
ctext(char, k) == Or(cval(char, k), cloc(char, k))

\* round(a / b) for integers a, b with b # 0: nearest integer, ties to even
RoundDiv(a, b) ==
    LET n == IF b < 0 THEN 0 - a ELSE a
        d == IF b < 0 THEN 0 - b ELSE b
        f == n \div d
        r == n % d
    IN  IF 2 * r < d THEN f
        ELSE IF 2 * r > d THEN f + 1
        ELSE IF f % 2 = 0 THEN f ELSE f + 1

\* the guard of the derived check
BackfillWanted(price_pln, area_m2, price_per_m2_pln) ==
    Truthy(price_pln) /\ Truthy(area_m2) /\ ~Truthy(price_per_m2_pln)

\* int(round(out["price_pln"] / float(out["area_m2"])))
PricePerArea(price_pln, area_m2) ==
    PyInt(RoundDiv(price_pln.v * area_m2.v[2], area_m2.v[1]))

\* the lift flag from out["additional_info"]
Lift(additional_info) ==
    LET lift_values == _safe_get(DictOf(<< <<K("additional_info"), additional_info>> >>),
                                 <<K("additional_info"), K("lift"), K("values")>>,
                                 PyList(<<>>))
    IN  IF IsList(lift_values) THEN _parse_bool_from_info_value(lift_values.v) ELSE None

\* the guard written "if ad is None: return out"
AdMissing_none_only(ad) == ad = None

\* the guard "if not isinstance(ad, dict): return out"
AdMissing(ad) == ~IsDict(ad)

\* the first exception among the results of the steps, in program order
FirstRaise(steps) ==
    IF \E i \in 1..Len(steps) : steps[i].t = "raise"
    THEN <<steps[CHOOSE i \in 1..Len(steps) :
                     /\ steps[i].t = "raise"
                     /\ \A j \in 1..(i - 1) : steps[j].t # "raise"]>>
    ELSE <<>>

\* the part of parse_otodom_html_v2 after the early return; ad.get raises
\* AttributeError when ad is not a dict
AdFields(ad, out0) ==
    IF ~IsDict(ad) THEN Raise("AttributeError") ELSE
    LET seo == GetDictOr(ad, K("seo"))
        description_text == SoupGetText(Or(Get(ad, K("description")), Str(<<>>)))
        loc == GetDictOr(ad, K("location"))
        coords == GetDictOr(loc, K("coordinates"))
        addr == GetDictOr(loc, K("address"))
        street == _nm(Get(addr, K("street")))
        district == _nm(Get(addr, K("district")))
        city == _nm(Get(addr, K("city")))
        province == _nm(Get(addr, K("province")))
        location_text == LocationText(<<street, district, city, province>>)
        images == GetListOr(ad, K("images"))
        fbc == FeaturesByCategory(GetListOr(ad, K("featuresByCategory")).v, EmptyDict)
        owner == GetDictOr(ad, K("owner"))
        agency == GetDictOr(ad, K("agency"))
        char == _characteristics_to_map(Get(ad, K("characteristics")))
        top_info == _info_list_to_kv(Get(ad, K("topInformation")))
        additional_info == _info_list_to_kv(Get(ad, K("additionalInformation")))
        raised == FirstRaise(<<description_text, location_text, fbc, char, top_info,
                               additional_info>>)
        price_pln == _parse_int(ctext(char, K("price")))
        area_m2 == _parse_float(ctext(char, K("m")))
        price_per_m2_pln == _parse_int(ctext(char, K("price_per_m")))
    IN  IF raised # <<>> THEN raised[1]
        ELSE PyDict(out0.v @@ DictOf(<<
            <<K("ad_id"), Get(ad, K("id"))>>,
            <<K("reference_id"), Get(ad, K("referenceId"))>>,
            <<K("slug"), Get(ad, K("slug"))>>,
            <<K("url"), Get(ad, K("url"))>>,
            <<K("status"), Get(ad, K("status"))>>,
            <<K("created_at"), Get(ad, K("createdAt"))>>,
            <<K("modified_at"), Get(ad, K("modifiedAt"))>>,
            <<K("pushed_up_at"), Get(ad, K("pushedUpAt"))>>,
            <<K("title"), Get(ad, K("title"))>>,
            <<K("seo_title"), Get(seo, K("title"))>>,
            <<K("seo_description"), Get(seo, K("description"))>>,
            <<K("description_html"), Get(ad, K("description"))>>,
            <<K("description_text"), _clean_text(description_text)>>,
            <<K("market"), Get(ad, K("market"))>>,
            <<K("advertiser_type"), Get(ad, K("advertiserType"))>>,
            <<K("advert_type"), Get(ad, K("advertType"))>>,
            <<K("exclusive_offer"), Get(ad, K("exclusiveOffer"))>>,
            <<K("creation_source"), Get(ad, K("creationSource"))>>,
            <<K("latitude"), Get(coords, K("latitude"))>>,
            <<K("longitude"), Get(coords, K("longitude"))>>,
            <<K("street"), street>>,
            <<K("street_number"),
              _clean_text(_safe_get(addr, <<K("street"), K("number")>>, None))>>,
            <<K("district"), district>>,
            <<K("city"), city>>,
            <<K("county"), _nm(Get(addr, K("county")))>>,
            <<K("province"), province>>,
            <<K("postal_code"), Get(addr, K("postalCode"))>>,
            <<K("location_text"), location_text>>,
            <<K("images_small"), PyList(ImagesSmall(images.v))>>,
            <<K("images_count"), PyInt(Len(images.v))>>,
            <<K("features"), GetListOr(ad, K("features"))>>,
            <<K("features_by_category"), fbc>>,
            <<K("features_without_category"), GetListOr(ad, K("featuresWithoutCategory"))>>,
            <<K("owner"), DictOf(<<
                <<K("id"), Get(owner, K("id"))>>,
                <<K("name"), Get(owner, K("name"))>>,
                <<K("type"), Get(owner, K("type"))>>,
                <<K("phones"), GetListOr(owner, K("phones"))>>,
                <<K("imageUrl"), Get(owner, K("imageUrl"))>> >>)>>,
            <<K("agency_name"), IF Truthy(agency) THEN Get(agency, K("name")) ELSE None>>,
            <<K("char"), char>>,
            <<K("top_info"), top_info>>,
            <<K("additional_info"), additional_info>>,
            <<K("price_pln"), price_pln>>,
            <<K("area_m2"), area_m2>>,
            <<K("price_per_m2_pln"),
              IF BackfillWanted(price_pln, area_m2, price_per_m2_pln)
              THEN PricePerArea(price_pln, area_m2)
              ELSE price_per_m2_pln>>,
            <<K("rooms"), _parse_int(ctext(char, K("rooms_num")))>>,
            <<K("building_floors"), _parse_int(ctext(char, K("building_floors_num")))>>,
            <<K("year_built"), _parse_int(ctext(char, K("build_year")))>>,
            <<K("rent_pln"), _parse_int(ctext(char, K("rent")))>>,
            <<K("floor"), _parse_int(ctext(char, K("floor_no")))>>,
            <<K("lift"), Lift(additional_info)>>,
            <<K("property_raw"),
              IF IsDict(Get(ad, K("property"))) THEN Get(ad, K("property")) ELSE None>> >>).v)

parse_otodom_html_v2(html, keep) ==
    LET next_data == _extract_next_data(html)
        ad == IF next_data.t = "raise" THEN None
              ELSE IF Truthy(next_data)
              THEN _safe_get(next_data, <<K("props"), K("pageProps"), K("ad")>>, None)
              ELSE None
        out0 == DictOf(<< <<K("source"), K("otodom")>>,
                          <<K("next_data_present"), PyBool(Truthy(next_data))>>,
                          <<K("next_data"), None>>,
                          <<K("ad_raw"), IF keep THEN ad ELSE None>> >>)
    IN  IF next_data.t = "raise" THEN next_data
        ELSE IF AdMissing(ad) THEN out0
        ELSE AdFields(ad, out0)

(***************************************************************************)
(* The pages explored.                                                     *)
(***************************************************************************)
S_x == <<"x">>

S_abc == <<"a", "b", "c">>

\* a JSON object given by its members
Obj(pairs) == DictOf(pairs)

\* sequences of at most n elements of S
SeqsUpTo(S, n) == UNION { [1..k -> S] : k \in 0..n }

\* the document {"props": {"pageProps": {"ad": ad}}}
Wrap(ad) ==
    Obj(<< <<K("props"), Obj(<< <<K("pageProps"), Obj(<< <<K("ad"), ad>> >>)>> >>)>> >>)

\* values found where the parser looks for the ad
NotAnAd ==
    { None, PyInt(0), PyInt(5), Str(S_x), PyBool(TRUE), PyList(<<>>),
      PyList(<<Obj(<< <<K("id"), PyInt(1)>> >>)>>) }

\* documents on which props -> pageProps -> ad does not reach a dict
PathShapes ==
    NotAnAd
    \cup { EmptyDict, Obj(<< <<K("ad"), EmptyDict>> >>), Obj(<< <<K("pageProps"), EmptyDict>> >>) }
    \cup { Obj(<< <<K("props"), x>> >>) : x \in NotAnAd \cup {EmptyDict} }
    \cup { Obj(<< <<K("props"), Obj(<< <<K("pageProps"), x>> >>)>> >>) :
             x \in NotAnAd \cup {EmptyDict} }
    \cup { Wrap(x) : x \in NotAnAd }

\* texts found in listings
S_0 == <<"0">>

S_1 == <<"1">>

S_3 == <<"3">>

S_900000 == <<"9", "0", "0", "0", "0", "0">>

S_900_000_zl == <<"9", "0", "0", NBSP, "0", "0", "0", " ", "z", "l">>

S_60_0 == <<"6", "0", ".", "0">>

S_0_4 == <<"0", ".", "4">>

S_68_71_m2 == <<"6", "8", ",", "7", "1", " ", "m", SUP2>>

S_15000 == <<"1", "5", "0", "0", "0">>

S_15_267_zl_m2 == <<"1", "5", " ", "2", "6", "7", " ", "z", "l", "/", "m", SUP2>>

S_floor_3 == <<"f", "l", "o", "o", "r", "_", "3">>

S_no_sentinel == <<":", ":", "n">>

S_yes_sentinel == <<":", ":", "y">>

S_zero_sentinel == <<":", ":", "0">>

S_one_sentinel == <<":", ":", "1">>

S_no == <<"n", "o">>

S_yes == <<"y", "e", "s">>

S_lift_yes == <<"l", "i", "f", "t", ":", ":", "y", "e", "s">>

S_upper_yes == <<":", ":", "Y">>

(***************************************************************************)
(* Ads with a sub-field of an irregular shape.                             *)
(***************************************************************************)
\* what a characteristic carries as key, an information entry as label
KeyShapes ==
    { None, Str(<<>>), K("price"), Str(S_abc), PyInt(0), PyInt(7),
      PyList(<<>>), PyList(<<Str(S_x)>>), EmptyDict, Obj(<< <<K("id"), PyInt(1)>> >>) }

\* an entry whose field f (key or label) holds k
ShapeEntry(f, k) ==
    Obj(<< <<f, k>>, <<K("value"), Str(S_1)>>, <<K("values"), PyList(<<Str(S_1)>>)>> >>)

ShapeEntries(f) == { None, PyInt(5), Str(S_x) } \cup { ShapeEntry(f, k) : k \in KeyShapes }

NotAList == { None, PyInt(5), Str(S_x), EmptyDict }

ShapeLists(f) == NotAList \cup { PyList(l) : l \in SeqsUpTo(ShapeEntries(f), MaxEntries) }

\* {"name": ...} members of an address, and values that are not such objects
NameShapes ==
    { None, PyInt(5), Obj(<< <<K("name"), Str(S_abc)>> >>), Obj(<< <<K("name"), PyInt(5)>> >>),
      Obj(<< <<K("name"), Str(<<>>)>>, <<K("number"), PyInt(3)>> >>) }

LocationShapes ==
    { PyInt(5), EmptyDict, Obj(<< <<K("address"), Str(S_x)>>, <<K("coordinates"), PyInt(5)>> >>) }
    \cup { Obj(<< <<K("address"), Obj(<< <<K("street"), a>>, <<K("city"), b>> >>)>>,
                  <<K("coordinates"), Obj(<< <<K("latitude"), PyInt(50)>> >>)>> >>) :
             a \in NameShapes, b \in NameShapes }

DescriptionShapes ==
    { None, Str(<<>>), Str(<<"a", "<br>", " ", NBSP, "b", "<b>", "c", "</b>">>),
      PyInt(0), PyInt(5), PyBool(TRUE), PyBool(FALSE) }

OtherShapes ==
    { Obj(<< <<K("images"), x>> >>) :
        x \in NotAList \cup { PyList(<<PyInt(5), Obj(<< <<K("small"), Str(S_x)>> >>), EmptyDict>>) } }
    \cup { Obj(<< <<K("seo"), x>>, <<K("owner"), x>>, <<K("agency"), x>>, <<K("property"), x>>,
                  <<K("id"), PyInt(7)>>, <<K("features"), x>> >>) :
             x \in { PyInt(5), EmptyDict, PyList(<<Str(S_x)>>),
                     Obj(<< <<K("name"), Str(S_abc)>>, <<K("title"), Str(S_x)>> >>) } }

ShapeAds ==
    { EmptyDict }
    \cup { Obj(<< <<K("characteristics"), l>> >>) : l \in ShapeLists(K("key")) }
    \cup { Obj(<< <<K("topInformation"), l>> >>) : l \in ShapeLists(K("label")) }
    \cup { Obj(<< <<K("additionalInformation"), l>> >>) : l \in ShapeLists(K("label")) }
    \cup { Obj(<< <<K("featuresByCategory"), l>> >>) : l \in ShapeLists(K("label")) }
    \cup { Obj(<< <<K("description"), d>> >>) : d \in DescriptionShapes }
    \cup { Obj(<< <<K("location"), l>> >>) : l \in LocationShapes }
    \cup OtherShapes

(***************************************************************************)
(* Ads with well-formed characteristics and lift information.              *)
(***************************************************************************)
\* the characteristics read by the parser, in the order they are listed
NumKeys ==
    <<K("price"), K("m"), K("price_per_m"), K("rooms_num"), K("building_floors_num"),
      K("build_year"), K("rent"), K("floor_no")>>

\* <<value, localizedValue>> of a characteristic
NumOptions(k) ==
    CASE k = K("price") ->
           { <<Str(S_900000), None>>, <<Str(S_0), None>>, <<Str(S_abc), Str(S_900000)>>,
             <<Str(<<>>), Str(S_900_000_zl)>>, <<PyInt(1), None>> }
      [] k = K("m") ->
           { <<Str(S_60_0), None>>, <<Str(S_0), None>>, <<Str(S_68_71_m2), None>>,
             <<Str(S_abc), None>>, <<None, Str(S_0_4)>> }
      [] k = K("price_per_m") ->
           { <<Str(S_15000), None>>, <<Str(S_0), None>>, <<None, Str(S_15_267_zl_m2)>>,
             <<Str(<<>>), None>>, <<Str(S_abc), None>> }
      [] OTHER ->
           { <<Str(S_3), None>>, <<Str(<<>>), Str(<<>>)>>, <<Str(S_abc), Str(S_3)>>,
             <<Str(S_floor_3), None>> }

NumEntry(k, o) ==
    Obj(<< <<K("key"), k>>, <<K("value"), o[1]>>, <<K("localizedValue"), o[2]>> >>)

\* the list of the entries chosen by the function c from keys to options
RECURSIVE NumList(_, _)
NumList(c, i) ==
    IF i > Len(NumKeys) THEN <<>>
    ELSE IF NumKeys[i] \in DOMAIN c
    THEN <<NumEntry(NumKeys[i], c[NumKeys[i]])>> \o NumList(c, i + 1)
    ELSE NumList(c, i + 1)

NumChoices ==
    UNION { { c \in [ks -> UNION { NumOptions(k) : k \in ks }] :
                \A k \in ks : c[k] \in NumOptions(k) } :
            ks \in { x \in SUBSET { NumKeys[i] : i \in 1..Len(NumKeys) } :
                       Cardinality(x) <= MaxChars } }

DeriveAds ==
    { Obj(<< <<K("characteristics"), PyList(NumList(c, 1))>> >>) : c \in NumChoices }

LiftTokens ==
    { Str(S_no_sentinel), Str(S_yes_sentinel), Str(S_zero_sentinel), Str(S_one_sentinel),
      Str(S_no), Str(S_yes), Str(S_lift_yes), Str(S_upper_yes), Str(S_abc), PyInt(1) }

LiftValues ==
    { None, Str(S_yes_sentinel) } \cup { PyList(l) : l \in SeqsUpTo(LiftTokens, MaxValues) }

LiftAds ==
    { Obj(<< <<K("additionalInformation"),
               PyList(pre \o <<Obj(<< <<K("label"), K("lift")>>, <<K("values"), v>> >>)>>)>> >>) :
        v \in LiftValues,
        pre \in { <<>>, <<Obj(<< <<K("label"), K("lift")>>,
                                 <<K("values"), PyList(<<Str(S_yes_sentinel)>>)>> >>)>> } }

Ads == ShapeAds \cup DeriveAds \cup LiftAds

Pages ==
    { [script |-> s, data |-> None] : s \in {"absent", "empty", "invalid"} }
    \cup { [script |-> "json", data |-> d] : d \in PathShapes \cup { Wrap(a) : a \in Ads } }

(***************************************************************************)
(* One call of parse_otodom_html_v2.                                       *)
(***************************************************************************)
InitParse ==
    /\ pc = "start"
    /\ html_text \in Pages
    /\ keep_ad_raw \in BOOLEAN
    /\ out = None
    /\ text = None /\ parsed = None
    /\ chars = None /\ char_map = None
    /\ items = None /\ info_kv = None
    /\ FlattenIdle /\ BronzeIdle
    /\ BatchIdle
    /\ ScrapIdle
    /\ SessionIdle
    /\ LoopIdle

Parse ==
    /\ pc = "start"
    /\ out' = parse_otodom_html_v2(html_text, keep_ad_raw)
    /\ pc' = "done"
    /\ UNCHANGED <<text, parsed, html_text, keep_ad_raw, chars, char_map, items, info_kv>>
    /\ UNCHANGED <<flattenVars, bronzeVars>>
    /\ UNCHANGED batchVars
    /\ UNCHANGED scrapVars
    /\ UNCHANGED sessionVars
    /\ UNCHANGED loopVars

NextParse == Parse

SpecParse == InitParse /\ [][NextParse]_vars

(***************************************************************************)
(* One call of _characteristics_to_map.                                    *)
(***************************************************************************)
S_PLN == <<"P", "L", "N">>

S_m == <<"m">>

CharKeys ==
    { K("price"), Str(S_abc), Str(<<>>), None, PyInt(0), PyInt(7), PyList(<<Str(S_x)>>) }

CharEntries ==
    { None, PyInt(5) }
    \cup { Obj(<< <<K("key"), k>>, <<K("value"), vl[1]>>, <<K("localizedValue"), vl[2]>>,
                  <<K("currency"), c>> >>) :
             k \in CharKeys,
             vl \in { <<Str(S_1), None>>, <<Str(S_3), Str(S_abc)>> },
             c \in { None, Str(<<>>), Str(S_PLN) } }

CharLists == NotAList \cup { PyList(l) : l \in SeqsUpTo(CharEntries, MaxEntries) }

InitChars ==
    /\ pc = "start"
    /\ chars \in CharLists
    /\ char_map = None
    /\ text = None /\ parsed = None
    /\ html_text = None /\ keep_ad_raw = FALSE /\ out = None
    /\ items = None /\ info_kv = None
    /\ FlattenIdle /\ BronzeIdle
    /\ BatchIdle
    /\ ScrapIdle
    /\ SessionIdle
    /\ LoopIdle

CharacteristicsToMap ==
    /\ pc = "start"
    /\ char_map' = _characteristics_to_map(chars)
    /\ pc' = "done"
    /\ UNCHANGED <<text, parsed, html_text, keep_ad_raw, out, chars, items, info_kv>>
    /\ UNCHANGED <<flattenVars, bronzeVars>>
    /\ UNCHANGED batchVars
    /\ UNCHANGED scrapVars
    /\ UNCHANGED sessionVars
    /\ UNCHANGED loopVars

NextChars == CharacteristicsToMap

SpecChars == InitChars /\ [][NextChars]_vars

(***************************************************************************)
(* One call of _info_list_to_kv.                                           *)
(***************************************************************************)
InfoLabels == { K("lift"), Str(S_abc), Str(<<>>), None, PyInt(7), PyList(<<Str(S_x)>>) }

InfoEntries ==
    { None, PyInt(5) }
    \cup { Obj(<< <<K("label"), l>>, <<K("values"), v>>, <<K("unit"), u>> >>) :
             l \in InfoLabels,
             v \in { None, Str(S_1), PyList(<<>>), PyList(<<Str(S_no_sentinel)>>),
                     PyList(<<Str(S_1), Str(S_3)>>) },
             u \in { None, Str(S_m) } }

InfoLists == NotAList \cup { PyList(l) : l \in SeqsUpTo(InfoEntries, MaxEntries) }

InitInfo ==
    /\ pc = "start"
    /\ items \in InfoLists
    /\ info_kv = None
    /\ text = None /\ parsed = None
    /\ html_text = None /\ keep_ad_raw = FALSE /\ out = None
    /\ chars = None /\ char_map = None
    /\ FlattenIdle /\ BronzeIdle
    /\ BatchIdle
    /\ ScrapIdle
    /\ SessionIdle
    /\ LoopIdle

InfoListToKv ==
    /\ pc = "start"
    /\ info_kv' = _info_list_to_kv(items)
    /\ pc' = "done"
    /\ UNCHANGED <<text, parsed, html_text, keep_ad_raw, out, chars, char_map, items>>
    /\ UNCHANGED <<flattenVars, bronzeVars>>
    /\ UNCHANGED batchVars
    /\ UNCHANGED scrapVars
    /\ UNCHANGED sessionVars
    /\ UNCHANGED loopVars

NextInfo == InfoListToKv

SpecInfo == InitInfo /\ [][NextInfo]_vars

(***************************************************************************)
(* Properties of parse_otodom_html_v2 (SpecParse).                         *)
(***************************************************************************)
NumericFields ==
    { K("price_pln"), K("area_m2"), K("price_per_m2_pln"), K("rooms"),
      K("building_floors"), K("year_built"), K("rent_pln"), K("floor") }

\* the keys of the result returned before any listing field is set
DegradedKeys == { K("source"), K("next_data_present"), K("next_data"), K("ad_raw") }

\* the value at props -> pageProps -> ad of a document, None when a step fails
AdOf(d) ==
    IF IsDict(d) /\ IsDict(Get(d, K("props")))
                 /\ IsDict(Get(Get(d, K("props")), K("pageProps")))
    THEN Get(Get(Get(d, K("props")), K("pageProps")), K("ad"))
    ELSE None

ParsedJson == pc = "done" /\ html_text.script = "json"

\* C1: for a page with no __NEXT_DATA__ script, or whose script is empty or
\* not valid JSON, the parser returns, without raising, a dictionary with
\* next_data_present = false in which no derived numeric field holds a value.
C1_NoStructuredData ==
    (pc = "done" /\ html_text.script \in {"absent", "empty", "invalid"}) =>
        /\ out.t = "dict"
        /\ Get(out, K("next_data_present")) = PyBool(FALSE)
        /\ \A f \in NumericFields : Get(out, f) = None

C1_Witness ==
    /\ pc = "done"
    /\ html_text.script = "invalid"
    /\ out.t = "dict"
    /\ Get(out, K("next_data_present")) = PyBool(FALSE)

C3_NeverRaises ==
    (ParsedJson /\ IsDict(AdOf(html_text.data))) => out.t = "dict"

(***************************************************************************)
(* Properties of _parse_int and _parse_float (SpecNum).                    *)
(***************************************************************************)
UnitChars == {"z", "l", "/", "m", SUP2}

\* s[a..b] is a non-empty run of digits
DigitRun(s, a, b) == a <= b /\ \A i \in a..b : IsDigit(s[i])

\* s[a..] is a unit, possibly after a blank
UnitFrom(s, a) ==
    /\ a <= Len(s)
    /\ \A i \in a..Len(s) : s[i] \in UnitChars \cup {" ", NBSP}
    /\ \E i \in a..Len(s) : s[i] \in UnitChars

\* s[1..e] is a number written in groups: a leading group that does not
\* start with 0, then groups of three digits, each after a single blank
GroupsUpTo(s, e) ==
    /\ IsDigit(s[1]) /\ s[1] # "0" /\ IsDigit(s[e])
    /\ \A i \in 1..e :
           \/ IsDigit(s[i])
           \/ /\ IsSpace(s[i]) /\ i + 3 <= e /\ DigitRun(s, i + 1, i + 3)
              /\ (i + 3 = e \/ IsSpace(s[i + 4]))

\* the digits of s, in order
RECURSIVE DigitsOf(_)
DigitsOf(s) ==
    IF s = <<>> THEN <<>>
    ELSE IF IsDigit(Head(s)) THEN <<Head(s)>> \o DigitsOf(Tail(s))
    ELSE DigitsOf(Tail(s))

\* C4 as stated: for digit groups separated by blanks and followed by a
\* unit, _parse_int returns the number formed by all the groups; for a
\* decimal written with a comma or a dot and followed by a unit,
\* _parse_float returns that decimal.
C4_WholeNumberAcrossSeparators ==
    (pc = "done" /\ text.t = "str") =>
        LET s == text.v
        IN  /\ \A e \in 1..Len(s) :
                   (GroupsUpTo(s, e) /\ UnitFrom(s, e + 1)) =>
                       parsed.int = PyInt(DigitsValue(DigitsOf(s)))
            /\ \A p \in 2..Len(s), e \in 3..Len(s) :
                   ( /\ s[p] \in {",", "."}
                     /\ DigitRun(s, 1, p - 1) /\ DigitRun(s, p + 1, e)
                     /\ UnitFrom(s, e + 1) ) =>
                       parsed.float = PyFloat(DigitsValue(DigitsOf(s)), Pow10(e - p))

(***************************************************************************)
(* Properties of the derived fields (SpecParse).                           *)
(***************************************************************************)
\* the parser went past the early return and built the characteristics map
HasChar == pc = "done" /\ out.t = "dict" /\ K("char") \in DOMAIN out.v

\* the characteristic read for each derived numeric field
CharKeyOf(f) ==
    CASE f = K("price_pln") -> K("price")
      [] f = K("area_m2") -> K("m")
      [] f = K("price_per_m2_pln") -> K("price_per_m")
      [] f = K("rooms") -> K("rooms_num")
      [] f = K("building_floors") -> K("building_floors_num")
      [] f = K("year_built") -> K("build_year")
      [] f = K("rent_pln") -> K("rent")
      [] f = K("floor") -> K("floor_no")

\* the text of a characteristic: its value, or its localized value when the
\* value is missing or empty
CharText(f) == ctext(Get(out, K("char")), CharKeyOf(f))

\* a text that is empty, missing or without any digit
NoNumber(x) == x = None \/ \A i \in 1..Len(x.v) : ~IsDigit(x.v[i])

\* a number or null, never a string
WellTyped(f) ==
    Get(out, f).t \in (IF f = K("area_m2") THEN {"float", "null"} ELSE {"int", "null"})

\* C5 as stated: every derived numeric field is a number or null, and a
\* characteristic whose text is empty, missing or without digit gives null
\* for its field.
C5_NumericOrNull ==
    HasChar => \A f \in NumericFields :
                   /\ WellTyped(f)
                   /\ NoNumber(CharText(f)) => Get(out, f) = None

\* C5 amended: every derived numeric field is a number or null; a
\* characteristic whose text is empty, missing or without digit gives null
\* for its field, except that price_per_m2_pln is then null unless it is
\* backfilled from a price_pln and an area_m2 that are both present; every
\* other field is the number parsed from its own characteristic alone.
C5_NumericOrNullOrBackfilled ==
    HasChar => \A f \in NumericFields :
                   /\ WellTyped(f)
                   /\ IF f = K("price_per_m2_pln")
                      THEN NoNumber(CharText(f)) =>
                               \/ Get(out, f) = None
                               \/ /\ Get(out, K("price_pln")).t = "int"
                                  /\ Get(out, K("area_m2")).t = "float"
                      ELSE /\ NoNumber(CharText(f)) => Get(out, f) = None
                           /\ ~NoNumber(CharText(f)) => Get(out, f) # None

C5_Witness ==
    /\ HasChar
    /\ K("price") \in DOMAIN Get(out, K("char")).v
    /\ K("rooms_num") \in DOMAIN Get(out, K("char")).v
    /\ NoNumber(CharText(K("price_pln")))
    /\ Get(out, K("price_pln")) = None
    /\ Get(out, K("rooms")) = PyInt(3)

\* the price per area parsed from the price_per_m characteristic itself
DirectPricePerM2 == _parse_int(CharText(K("price_per_m2_pln")))

\* C6 as stated: with no direct price per area, price_per_m2_pln is
\* round(price_pln / area_m2) when both are parsed and area_m2 is non-zero,
\* and null when area_m2 is zero or an operand is missing.
C6_BackfillRoundedQuotient ==
    (HasChar /\ DirectPricePerM2 = None) =>
        LET price == Get(out, K("price_pln"))
            area == Get(out, K("area_m2"))
        IN  IF price # None /\ area # None /\ area.v[1] # 0
            THEN Get(out, K("price_per_m2_pln")) =
                     PyInt(RoundDiv(price.v * area.v[2], area.v[1]))
            ELSE Get(out, K("price_per_m2_pln")) = None

\* C7 as stated: a price per area parsed directly from the price_per_m
\* characteristic is returned unchanged, whatever price_pln and area_m2 are.
C7_BackfillOnlyFillsGap ==
    (HasChar /\ DirectPricePerM2 # None) =>
        Get(out, K("price_per_m2_pln")) = DirectPricePerM2

\* the values list of the additional_info entry labelled lift, <<>> if absent
LiftValuesOut ==
    LET e == Get(Get(out, K("additional_info")), K("lift"))
    IN  IF e = None THEN <<>> ELSE Get(e, K("values")).v

\* some value is a string that contains one of the tokens
Carries(vals, tokens) ==
    \E i \in 1..Len(vals) :
        vals[i].t = "str" /\ \E tk \in tokens : Contains(StrLower(vals[i].v), tk)

YesLike == { S_yes_sentinel, S_yes, S_one_sentinel }

NoLike == { S_no_sentinel, S_no, S_zero_sentinel }

\* C8 as stated: lift is false when the values carry ::n, true when they
\* carry ::y, and null when the entry is absent, its list is empty, or the
\* values carry both a yes-like and a no-like token.
C8_LiftTriState ==
    HasChar =>
        LET vals == LiftValuesOut
            ambiguous == Carries(vals, YesLike) /\ Carries(vals, NoLike)
            lift == Get(out, K("lift"))
        IN  /\ (vals = <<>> \/ ambiguous) => lift = None
            /\ (Carries(vals, {S_no_sentinel}) /\ ~ambiguous) => lift = PyBool(FALSE)
            /\ (Carries(vals, {S_yes_sentinel}) /\ ~ambiguous) => lift = PyBool(TRUE)

(***************************************************************************)
(* Properties of _characteristics_to_map (SpecChars).                      *)
(***************************************************************************)
\* entry i of the list l is a dict with a non-empty key
Keyed(l, f, i) == IsDict(l[i]) /\ Truthy(Get(l[i], f))

\* entry i is the last entry of l that carries its key
LastOfKey(l, f, i) ==
    \A j \in (i + 1)..Len(l) : Keyed(l, f, j) => Get(l[j], f) # Get(l[i], f)

\* C9 as stated: for every characteristics list the result is a map in
\* which each non-empty key holds the value, localized value and currency
\* of the last entry carrying that key and nothing of an earlier entry; an
\* empty or non-list input gives the empty map.
C9_LastEntryWins ==
    pc = "done" =>
        /\ char_map.t = "dict"
        /\ ~IsList(chars) => char_map = EmptyDict
        /\ IsList(chars) =>
             LET l == chars.v
             IN  /\ DOMAIN char_map.v =
                        { Get(l[i], K("key")) : i \in { j \in 1..Len(l) : Keyed(l, K("key"), j) } }
                 /\ \A i \in 1..Len(l) :
                        (Keyed(l, K("key"), i) /\ LastOfKey(l, K("key"), i)) =>
                            LET e == char_map.v[Get(l[i], K("key"))]
                            IN  /\ Get(e, K("value")) = Get(l[i], K("value"))
                                /\ Get(e, K("localized")) = Get(l[i], K("localizedValue"))
                                /\ IF Truthy(Get(l[i], K("currency")))
                                   THEN Get(e, K("currency")) = Get(l[i], K("currency"))
                                   ELSE K("currency") \notin DOMAIN e.v

(***************************************************************************)
(* Properties of _info_list_to_kv (SpecInfo).                              *)
(***************************************************************************)
\* C10 as stated: every entry {label, values} with a non-empty label,
\* whatever the label is, appears in the result under exactly that label
\* with its values list unchanged; no label causes a failure or is dropped.
C10_EveryLabelPassesThrough ==
    pc = "done" =>
        /\ info_kv.t = "dict"
        /\ IsList(items) =>
             \A i \in 1..Len(items.v) :
                 (Keyed(items.v, K("label"), i) /\ IsList(Get(items.v[i], K("values")))) =>
                     /\ Get(items.v[i], K("label")) \in DOMAIN info_kv.v
                     /\ Get(info_kv.v[Get(items.v[i], K("label"))], K("values")) =
                            Get(items.v[i], K("values"))

\* C11 as stated: an information entry {label, values, unit} with a
\* non-empty unit yields {label: {"values": [...], "unit": unit}}: the
\* result keeps the unit of the (last) entry of each label.
C11_KeepsUnit ==
    (pc = "done" /\ info_kv.t = "dict" /\ IsList(items)) =>
        \A i \in 1..Len(items.v) :
            ( /\ Keyed(items.v, K("label"), i)
              /\ LastOfKey(items.v, K("label"), i)
              /\ Truthy(Get(items.v[i], K("unit"))) ) =>
                Get(info_kv.v[Get(items.v[i], K("label"))], K("unit")) =
                    Get(items.v[i], K("unit"))

(***************************************************************************)
(* ExtractPayload (src/realestateai/data/bronze_to_silver.py).             *)
(* A stored payload is a dict; a Python dict iterates in insertion order,  *)
(* which the value as a map does not fix: the dicts of one payload iterate *)
(* either in a reference order of their keys or in its reverse.            *)
(***************************************************************************)
\* the elements of the set S in the reference order
RECURSIVE SeqOfSet(_)
SeqOfSet(S) ==
    IF S = {} THEN <<>>
    ELSE LET x == CHOOSE y \in S : TRUE IN <<x>> \o SeqOfSet(S \ {x})

Reverse(s) == [i \in 1..Len(s) |-> s[Len(s) + 1 - i]]

\* the keys of the dict d as d.items() yields them
Keys(d, rev) == IF rev THEN Reverse(SeqOfSet(DOMAIN d.v)) ELSE SeqOfSet(DOMAIN d.v)

S_buildingProperties ==
    <<"b", "u", "i", "l", "d", "i", "n", "g", "P", "r", "o", "p", "e", "r", "t", "i", "e", "s">>

S_typename == <<"_", "_", "t", "y", "p", "e", "n", "a", "m", "e">>

\* the separator "__" of flat keys
S_sep == <<"_", "_">>

\* the separator "::" of information values
S_colons == <<":", ":">>

\* output_dict[field_name] = data_dict.get(field_name, None)
simple_get_field(output_dict, field_name, data_dict) ==
    Put(output_dict, field_name, Get(data_dict, field_name))

\* for k, v in obj.items(): output_dict[k] = v.get("value")
RECURSIVE CharFieldsLoop(_, _, _)
CharFieldsLoop(ks, obj, output_dict) ==
    IF ks = <<>> THEN output_dict
    ELSE LET v == obj.v[Head(ks)]
         IN  IF ~IsDict(v) THEN Raise("AttributeError")
             ELSE CharFieldsLoop(Tail(ks), obj, Put(output_dict, Head(ks), Get(v, K("value"))))

\* obj.items() raises AttributeError when obj is not a dict
extract_char_fields(output_dict, field_name, data_dict, rev) ==
    LET obj == Get(data_dict, field_name)
    IN  IF ~IsDict(obj) THEN Raise("AttributeError")
        ELSE CharFieldsLoop(Keys(obj, rev), obj, output_dict)

\* the position of the first "::" in the string s
FirstColons(s) ==
    CHOOSE i \in 1..(Len(s) - 1) :
        /\ SubSeq(s, i, i + 1) = S_colons
        /\ \A j \in 1..(i - 1) : SubSeq(s, j, j + 1) # S_colons

\* the body of `for elem in values`: "::" in elem is a substring test on a
\* string, a membership test on a list or dict, a TypeError on the rest;
\* elem.split exists on strings only
ValuesElem(output_dict, k, elem) ==
    CASE elem.t = "str" ->
           IF Contains(elem.v, S_colons)
           THEN LET i == FirstColons(elem.v)
                IN  Put(output_dict, Str(SubSeq(elem.v, 1, i - 1)),
                        Str(SubSeq(elem.v, i + 2, Len(elem.v))))
           ELSE Put(output_dict, k, elem)
      [] elem.t = "list" ->
           IF \E i \in 1..Len(elem.v) : elem.v[i] = Str(S_colons)
           THEN Raise("AttributeError")
           ELSE Put(output_dict, k, elem)
      [] elem.t = "dict" ->
           IF Str(S_colons) \in DOMAIN elem.v THEN Raise("AttributeError")
           ELSE Put(output_dict, k, elem)
      [] OTHER -> Raise("TypeError")

RECURSIVE ValuesElems(_, _, _)
ValuesElems(elems, k, output_dict) ==
    IF elems = <<>> THEN output_dict
    ELSE LET o == ValuesElem(output_dict, k, Head(elems))
         IN  IF o.t = "raise" THEN o ELSE ValuesElems(Tail(elems), k, o)

\* what `for elem in values` yields: the elements of a list, the characters
\* of a string, the keys of a dict; the rest is not iterable
Iterate(values_, rev) ==
    CASE values_.t = "list" -> values_.v
      [] values_.t = "str" -> [i \in 1..Len(values_.v) |-> Str(<<values_.v[i]>>)]
      [] values_.t = "dict" -> Keys(values_, rev)
      [] OTHER -> <<Raise("TypeError")>>

RECURSIVE ValuesFieldsLoop(_, _, _, _)
ValuesFieldsLoop(ks, obj, output_dict, rev) ==
    IF ks = <<>> THEN output_dict
    ELSE LET v == obj.v[Head(ks)]
             values_ == Get(v, K("values"))
         IN  IF ~IsDict(v) THEN Raise("AttributeError")
             ELSE IF values_.t \notin {"list", "str", "dict"} THEN Raise("TypeError")
             ELSE LET o == ValuesElems(Iterate(values_, rev), Head(ks), output_dict)
                  IN  IF o.t = "raise" THEN o
                      ELSE ValuesFieldsLoop(Tail(ks), obj, o, rev)

extract_values_fields(output_dict, field_name, data_dict, rev) ==
    LET obj == Get(data_dict, field_name)
    IN  IF ~IsDict(obj) THEN Raise("AttributeError")
        ELSE ValuesFieldsLoop(Keys(obj, rev), obj, output_dict, rev)

\* s.endswith(suffix)
EndsWith(s, suffix) ==
    Len(s) >= Len(suffix) /\ SubSeq(s, Len(s) - Len(suffix) + 1, Len(s)) = suffix

\* a variant of FlatKey that trims the prefix of a list as well
FlatKey_trim_lists(obj, prefix) ==
    IF EndsWith(prefix, S_sep) THEN SubSeq(prefix, 1, Len(prefix) - 2) ELSE prefix

\* the key under which flatten stores a node that is not a mapping: the
\* prefix as it is for a list, the prefix without its trailing "__" for a
\* scalar
FlatKey(obj, prefix) ==
    IF IsList(obj) THEN prefix
    ELSE IF EndsWith(prefix, S_sep) THEN SubSeq(prefix, 1, Len(prefix) - 2)
    ELSE prefix

\* a variant of Skipped that drops no key
Skipped_nothing(kk) == FALSE

\* if kk == "__typename": continue
Skipped(kk) == kk = Str(S_typename)

\* flatten(obj, prefix) of extract_property_raw, as the output_dict it leaves
RECURSIVE flatten(_, _, _, _)
RECURSIVE FlattenItems(_, _, _, _, _)
flatten(obj, prefix, output_dict, rev) ==
    IF IsDict(obj) THEN FlattenItems(Keys(obj, rev), obj, prefix, output_dict, rev)
    ELSE Put(output_dict, Str(FlatKey(obj, prefix)), obj)

FlattenItems(ks, obj, prefix, output_dict, rev) ==
    IF ks = <<>> THEN output_dict
    ELSE IF Skipped(Head(ks)) THEN FlattenItems(Tail(ks), obj, prefix, output_dict, rev)
    ELSE FlattenItems(Tail(ks), obj, prefix,
                      flatten(obj.v[Head(ks)], prefix \o PyStr(Head(ks)) \o S_sep,
                              output_dict, rev),
                      rev)

\* a variant of BuildingPropertiesObj without the fallback into property_raw
BuildingPropertiesObj_top_only(data_dict) == Get(data_dict, Str(S_buildingProperties))

\* the object flattened as buildingProperties: the top-level one, else the
\* one inside property_raw when property_raw is a mapping
BuildingPropertiesObj(data_dict) ==
    LET obj == Get(data_dict, Str(S_buildingProperties))
        pr == Get(data_dict, K("property_raw"))
    IN  IF obj = None /\ IsDict(pr) THEN Get(pr, Str(S_buildingProperties)) ELSE obj

\* a variant of FlattenTarget that starts the flatten with an empty prefix
FlattenTarget_no_prefix(output_dict, field_name, obj, rev) ==
    IF obj = None THEN Put(output_dict, field_name, None)
    ELSE flatten(obj, <<>>, output_dict, rev)

\* a variant of FlattenTarget that leaves no key for a missing object
FlattenTarget_silent(output_dict, field_name, obj, rev) ==
    IF obj = None THEN output_dict
    ELSE flatten(obj, field_name.v \o S_sep, output_dict, rev)

\* if obj is None: output_dict[field_name] = None; return
\* flatten(obj, field_name + "__")
FlattenTarget(output_dict, field_name, obj, rev) ==
    IF obj = None THEN Put(output_dict, field_name, None)
    ELSE flatten(obj, field_name.v \o S_sep, output_dict, rev)

extract_property_raw(output_dict, field_name, data_dict, rev) ==
    IF field_name = K("property_raw")
    THEN FlattenTarget(output_dict, K("property_raw"), Get(data_dict, K("property_raw")), rev)
    ELSE IF field_name = Str(S_buildingProperties)
    THEN FlattenTarget(output_dict, Str(S_buildingProperties),
                       BuildingPropertiesObj(data_dict), rev)
    ELSE FlattenTarget(output_dict, field_name, Get(data_dict, field_name), rev)

\* the fields copied by simple_get_field, in the order of fields_processing
DirectFields ==
    <<K("ad_id"), K("url"), K("status"), K("created_at"), K("modified_at"),
      K("pushed_up_at"), K("title"), K("seo_title"), K("seo_description"),
      K("description_text"), K("market"), K("advertiser_type"), K("advert_type"),
      K("exclusive_offer"), K("latitude"), K("longitude"), K("street"),
      K("street_number"), K("district"), K("city"), K("county"), K("province"),
      K("postal_code"), K("location_text"), K("features"), K("agency_name"),
      K("price_pln"), K("area_m2"), K("price_per_m2_pln"), K("rooms"),
      K("building_floors"), K("year_built"), K("rent_pln"), K("floor"), K("lift")>>

\* a variant of fields_processing that copies the direct fields first
fields_processing_direct_first ==
    [i \in 1..Len(DirectFields) |-> <<DirectFields[i], "simple_get_field">>]
    \o << <<K("char"), "extract_char_fields">>,
          <<K("top_info"), "extract_values_fields">>,
          <<K("additional_info"), "extract_values_fields">>,
          <<K("property_raw"), "extract_property_raw">>,
          <<Str(S_buildingProperties), "extract_property_raw">> >>

\* fields_processing: <<field name, extractor>>
fields_processing ==
    << <<K("char"), "extract_char_fields">>,
       <<K("top_info"), "extract_values_fields">>,
       <<K("additional_info"), "extract_values_fields">> >>
    \o [i \in 1..Len(DirectFields) |-> <<DirectFields[i], "simple_get_field">>]
    \o << <<K("property_raw"), "extract_property_raw">>,
          <<Str(S_buildingProperties), "extract_property_raw">> >>

\* fn(out, field_name, payload)
ApplyField(fn, output_dict, field_name, data_dict, rev) ==
    CASE fn = "extract_char_fields" -> extract_char_fields(output_dict, field_name, data_dict, rev)
      [] fn = "extract_values_fields" ->
           extract_values_fields(output_dict, field_name, data_dict, rev)
      [] fn = "simple_get_field" -> simple_get_field(output_dict, field_name, data_dict)
      [] fn = "extract_property_raw" ->
           extract_property_raw(output_dict, field_name, data_dict, rev)

\* the output_dict after the first n entries of fields_processing, or the
\* exception one of them raised
RECURSIVE ProccessUpTo(_, _, _)
ProccessUpTo(n, data_dict, rev) ==
    IF n = 0 THEN EmptyDict
    ELSE LET o == ProccessUpTo(n - 1, data_dict, rev)
         IN  IF o.t = "raise" THEN o
             ELSE ApplyField(fields_processing[n][2], o, fields_processing[n][1], data_dict, rev)

proccess(payload_, rev) == ProccessUpTo(Len(fields_processing), payload_, rev)

(***************************************************************************)
(* The stored payloads explored.                                           *)
(***************************************************************************)
S_a == <<"a">>

S_b == <<"b">>

S_a__b == <<"a", "_", "_", "b">>

S_x_1 == <<"x", ":", ":", "1">>

S_x_2 == <<"x", ":", ":", "2">>

S_price_pln_5 == <<"p", "r", "i", "c", "e", "_", "p", "l", "n", ":", ":", "5">>

\* dicts of at most MaxProps keys among keys, with values among values_
DictsOver(keys, values_) ==
    { PyDict(f) : f \in UNION { [ks -> values_] :
                                  ks \in { x \in SUBSET keys : Cardinality(x) <= MaxProps } } }

\* mappings nested inside property_raw
InnerProps == DictsOver({ Str(S_b), Str(S_typename) }, { PyInt(1), PyList(<<Str(S_x)>>) })

S_buildingProperties__b == S_buildingProperties \o <<"_", "_", "b">>

\* what property_raw holds in a stored payload
PropertyShapes ==
    { None, PyInt(5), PyList(<<Str(S_x)>>),
      Obj(<< <<Str(S_buildingProperties), Obj(<< <<Str(S_b), PyInt(1)>> >>)>>,
             <<Str(S_buildingProperties__b), PyInt(2)>> >>) }
    \cup DictsOver({ Str(S_a), Str(S_a__b), Str(S_typename), Str(S_buildingProperties) },
                   { None, PyInt(2), PyList(<<Obj(<< <<Str(S_b), PyInt(1)>> >>)>>) }
                       \cup InnerProps)

\* stands for a key that the payload does not have
Missing == [t |-> "missing", v |-> 0]

\* what the top-level buildingProperties holds
BuildingShapes ==
    { Missing, None, EmptyDict, PyInt(5), PyList(<<Str(S_x)>>),
      Obj(<< <<Str(S_b), PyInt(3)>>, <<Str(S_typename), Str(S_x)>> >>) }

\* an information list with one entry per <<label, values>> pair
InfoList(pairs) ==
    PyList([i \in 1..Len(pairs) |->
               Obj(<< <<K("label"), pairs[i][1]>>, <<K("values"), pairs[i][2]>> >>)])

\* a characteristics list with one entry per <<key, value>> pair
CharList(pairs) ==
    PyList([i \in 1..Len(pairs) |->
               Obj(<< <<K("key"), pairs[i][1]>>, <<K("value"), pairs[i][2]>> >>)])

FlatChars ==
    { CharList(<<>>),
      CharList(<< <<K("price"), Str(S_900000)>>, <<K("m"), Str(S_60_0)>> >>),
      CharList(<< <<K("price_pln"), Str(S_3)>>, <<K("price"), Str(S_900000)>> >>),
      CharList(<< <<K("lift"), Str(S_x)>>, <<K("market"), Str(S_abc)>> >>) }

FlatTopInfo ==
    { None,
      InfoList(<< <<K("floor"), PyList(<<Str(S_3)>>)>> >>),
      InfoList(<< <<Str(S_abc), PyList(<<Str(S_price_pln_5)>>)>> >>),
      InfoList(<< <<Str(S_a), PyList(<<Str(S_x_1)>>)>>, <<Str(S_b), PyList(<<Str(S_x_2)>>)>> >>) }

FlatAdditionalInfo ==
    { None,
      InfoList(<< <<K("lift"), PyList(<<Str(S_no_sentinel)>>)>> >>),
      InfoList(<< <<K("lift"), PyList(<<Str(S_yes_sentinel), Str(S_no_sentinel)>>)>> >>),
      InfoList(<< <<K("lift"), PyList(<<PyInt(1)>>)>> >>),
      InfoList(<< <<K("market"), PyList(<<Str(S_abc)>>)>>,
                  <<K("lift"), Str(S_yes_sentinel)>> >>),
      InfoList(<< <<K("lift"), PyList(<<Str(S_yes_sentinel)>>)>>,
                  <<Str(S_abc), PyList(<<Str(S_yes_sentinel)>>)>> >>) }

FlatProperty ==
    { None, PyInt(5), Obj(<< <<K("type"), Str(S_x)>> >>),
      Obj(<< <<Str(S_buildingProperties), Obj(<< <<Str(S_b), PyInt(1)>> >>)>> >>) }

\* ads whose parsed payloads are flattened
FlatAds ==
    { Obj(<< <<K("id"), PyInt(7)>>, <<K("characteristics"), c>>, <<K("topInformation"), t>>,
             <<K("additionalInformation"), a>>, <<K("property"), p>> >>) :
        c \in FlatChars, t \in FlatTopInfo, a \in FlatAdditionalInfo, p \in FlatProperty }

\* the page that carries the ad
PageOf(ad) == [script |-> "json", data |-> Wrap(ad)]

\* the payloads the parser produces for these ads
ParsedPayloads == { parse_otodom_html_v2(PageOf(ad), FALSE) : ad \in FlatAds }

\* the degraded results of the parser: no script, no ad
DegradedPayloads ==
    { parse_otodom_html_v2(page, FALSE) :
        page \in { [script |-> "absent", data |-> None],
                   [script |-> "json", data |-> Wrap(PyInt(5))] } }

\* the payload parsed from the ad of the concrete scenario
BasePayload ==
    parse_otodom_html_v2(
        PageOf(Obj(<< <<K("id"), PyInt(7)>>,
                      <<K("characteristics"),
                        CharList(<< <<K("price"), Str(S_900000)>>, <<K("m"), Str(S_60_0)>> >>)>>,
                      <<K("additionalInformation"),
                        InfoList(<< <<K("lift"), PyList(<<Str(S_no_sentinel)>>)>> >>)>> >>)),
        FALSE)

\* d without the key k
Without(d, k) == PyDict([kk \in (DOMAIN d.v) \ {k} |-> d.v[kk]])

\* the payload with the given property_raw and buildingProperties
SetTargets(base, pr, bp) ==
    LET p == Put(base, K("property_raw"), pr)
    IN  IF bp = Missing THEN p ELSE Put(p, Str(S_buildingProperties), bp)

\* the base payload with the given property_raw and buildingProperties
WithTargets(pr, bp) == SetTargets(BasePayload, pr, bp)

\* the base payload without its property_raw key
NoPropertyKey == { Without(WithTargets(None, bp), K("property_raw")) : bp \in BuildingShapes }

Payloads ==
    ParsedPayloads \cup DegradedPayloads \cup NoPropertyKey
    \cup { WithTargets(pr, bp) : pr \in PropertyShapes, bp \in BuildingShapes }

(***************************************************************************)
(* One call of ExtractPayload.proccess.                                    *)
(***************************************************************************)
ParserIdle ==
    /\ text = None /\ parsed = None
    /\ html_text = None /\ keep_ad_raw = FALSE /\ out = None
    /\ chars = None /\ char_map = None
    /\ items = None /\ info_kv = None

InitFlatten ==
    /\ pc = "start"
    /\ payload \in Payloads
    /\ reversed \in BOOLEAN
    /\ record = None
    /\ ParserIdle /\ BronzeIdle
    /\ BatchIdle
    /\ ScrapIdle
    /\ SessionIdle
    /\ LoopIdle

Proccess ==
    /\ pc = "start"
    /\ record' = proccess(payload, reversed)
    /\ pc' = "done"
    /\ UNCHANGED <<text, parsed, html_text, keep_ad_raw, out, chars, char_map, items, info_kv>>
    /\ UNCHANGED <<payload, reversed, bronzeVars>>
    /\ UNCHANGED batchVars
    /\ UNCHANGED scrapVars
    /\ UNCHANGED sessionVars
    /\ UNCHANGED loopVars

NextFlatten == Proccess

SpecFlatten == InitFlatten /\ [][NextFlatten]_vars

(***************************************************************************)
(* Properties of ExtractPayload.proccess (SpecFlatten).                    *)
(***************************************************************************)
\* the chains of mapping keys that lead from obj to a node that is not a
\* mapping, none of the keys being "__typename"
RECURSIVE ChainsOf(_)
ChainsOf(obj) ==
    IF IsDict(obj)
    THEN UNION { { <<k>> \o c : c \in ChainsOf(obj.v[k]) } :
                 k \in (DOMAIN obj.v) \ { Str(S_typename) } }
    ELSE { <<>> }

\* the node of obj at the end of the chain c
RECURSIVE NodeAt(_, _)
NodeAt(obj, c) == IF c = <<>> THEN obj ELSE NodeAt(obj.v[Head(c)], Tail(c))

\* name + "__" + k1 + "__" + ... + "__" + kn
PathKey(name, c) ==
    IF c = <<>> THEN name
    ELSE name \o S_sep \o JoinWith([i \in 1..Len(c) |-> PyStr(c[i])], S_sep)

\* the key of the chain c: with the trailing "__" for a list
LeafKey(name, obj, c) ==
    IF IsList(NodeAt(obj, c)) THEN PathKey(name, c) \o S_sep ELSE PathKey(name, c)

\* the nodes of obj whose chains have the key k
NodesOfKey(name, obj, k) ==
    { NodeAt(obj, c) : c \in { d \in ChainsOf(obj) : LeafKey(name, obj, d) = k } }

\* the two flatten targets of the payload: <<name, object>>
Targets ==
    { <<Lit["property_raw"], Get(payload, K("property_raw"))>>,
      <<S_buildingProperties, BuildingPropertiesObj(payload)>> }

\* the record as it is before the two flatten targets are processed
BeforeTargets == ProccessUpTo(Len(fields_processing) - 2, payload, reversed)

\* s.startswith(p)
StartsWith(s, p) == Len(s) >= Len(p) /\ SubSeq(s, 1, Len(p)) = p

\* the proccess call returned a record
Flattened == pc = "done" /\ record.t = "dict"

\* C12 as stated: a list reached by flatten is stored whole under the
\* current prefix without its trailing "__".
C12_ListUnderTrimmedPrefix ==
    Flattened =>
        \A tg \in Targets :
            tg[2] # None =>
                \A c \in ChainsOf(tg[2]) :
                    IsList(NodeAt(tg[2], c)) =>
                        /\ Str(PathKey(tg[1], c)) \in DOMAIN record.v
                        /\ record.v[Str(PathKey(tg[1], c))] = NodeAt(tg[2], c)

\* C12 amended: a list reached by flatten is stored whole and unchanged
\* under the current prefix, trailing "__" included (where several nodes of
\* the target have the same flat key, one of them is stored), and flatten
\* does not descend into the list: the target adds no key but those of its
\* chains of mapping keys.
C12_ListUnderWholePrefix ==
    Flattened =>
        \A tg \in Targets :
            tg[2] # None =>
                /\ \A c \in ChainsOf(tg[2]) :
                       IsList(NodeAt(tg[2], c)) =>
                           LET k == PathKey(tg[1], c) \o S_sep
                           IN  /\ Str(k) \in DOMAIN record.v
                               /\ record.v[Str(k)] \in NodesOfKey(tg[1], tg[2], k)
                /\ \A kk \in DOMAIN record.v :
                       (kk.t = "str" /\ StartsWith(kk.v, tg[1])) =>
                           \/ kk \in DOMAIN BeforeTargets.v
                           \/ \E c \in ChainsOf(tg[2]) : LeafKey(tg[1], tg[2], c) = kk.v

\* a list nested in property_raw that holds a mapping has been flattened
C12_Witness ==
    /\ Flattened
    /\ IsDict(Get(payload, K("property_raw")))
    /\ \E c \in ChainsOf(Get(payload, K("property_raw"))) :
           LET n == NodeAt(Get(payload, K("property_raw")), c)
           IN  /\ c # <<>>
               /\ IsList(n)
               /\ \E i \in 1..Len(n.v) : IsDict(n.v[i])
               /\ record.v[Str(PathKey(Lit["property_raw"], c) \o S_sep)] = n

\* the record holds the key name with the value null, and every other key
\* that begins with name was there before the flatten targets, unchanged
OnlyNullKey(name) ==
    LET before == BeforeTargets
    IN  /\ Str(name) \in DOMAIN record.v
        /\ record.v[Str(name)] = None
        /\ \A kk \in (DOMAIN record.v) \ { Str(name) } :
               (kk.t = "str" /\ StartsWith(kk.v, name)) =>
                   /\ kk \in DOMAIN before.v
                   /\ record.v[kk] = before.v[kk]

\* buildingProperties is missing or null at the top level and inside property_raw
NoBuildingProperties ==
    /\ Get(payload, Str(S_buildingProperties)) = None
    /\ \/ ~IsDict(Get(payload, K("property_raw")))
       \/ Get(Get(payload, K("property_raw")), Str(S_buildingProperties)) = None

\* C13: when property_raw is missing or null the record receives from that
\* target exactly the key property_raw, set to null; when buildingProperties
\* is missing or null both at the top level and inside property_raw the
\* record receives exactly the key buildingProperties, set to null.
C13_NullTargetLeavesOneNullKey ==
    Flattened =>
        /\ Get(payload, K("property_raw")) = None => OnlyNullKey(Lit["property_raw"])
        /\ NoBuildingProperties => OnlyNullKey(S_buildingProperties)

\* a payload without either key has been flattened
C13_Witness ==
    /\ Flattened
    /\ K("property_raw") \notin DOMAIN payload.v
    /\ Str(S_buildingProperties) \notin DOMAIN payload.v
    /\ record.v[K("property_raw")] = None
    /\ record.v[Str(S_buildingProperties)] = None

\* property_raw is a mapping with at least one key
Populated == IsDict(Get(payload, K("property_raw"))) /\ Truthy(Get(payload, K("property_raw")))

\* the record of the payload that differs from payload only in property_raw = null
NullPropertyRecord == proccess(Put(payload, K("property_raw"), None), reversed)

\* the key belongs to one of the two flatten targets
TargetKey(kk) ==
    /\ kk.t = "str"
    /\ StartsWith(kk.v, Lit["property_raw"]) \/ StartsWith(kk.v, S_buildingProperties)

\* C14 as stated: a payload with a populated property_raw and the payload
\* that differs from it only in property_raw = null give records with the
\* same key set.
C14_SameKeySet ==
    (Flattened /\ Populated) =>
        LET other == NullPropertyRecord
        IN  other.t = "dict" /\ DOMAIN other.v = DOMAIN record.v

\* C14 amended: the two records have the same keys with the same values
\* outside the keys of the flatten targets (those that begin with
\* property_raw or buildingProperties); the record of the null payload
\* holds property_raw = null.
C14_SameKeysOutsideTargets ==
    (Flattened /\ Populated) =>
        LET other == NullPropertyRecord
        IN  /\ other.t = "dict"
            /\ { kk \in DOMAIN record.v : ~TargetKey(kk) } =
                   { kk \in DOMAIN other.v : ~TargetKey(kk) }
            /\ \A kk \in DOMAIN record.v : ~TargetKey(kk) => other.v[kk] = record.v[kk]
            /\ K("property_raw") \in DOMAIN other.v
            /\ other.v[K("property_raw")] = None

\* a populated property_raw has been flattened into property_raw__ keys
\* that the record of the null payload does not have
C14_Witness ==
    /\ Flattened
    /\ Populated
    /\ \E kk \in DOMAIN record.v :
           /\ kk.t = "str"
           /\ StartsWith(kk.v, Lit["property_raw"] \o S_sep)
           /\ kk \notin DOMAIN NullPropertyRecord.v
    /\ NullPropertyRecord.v[K("property_raw")] = None

\* C15 as stated: proccess is a function of the payload as a nested map:
\* the same payload with its dictionaries iterated in another order gives a
\* record with the same keys and the same values.
C15_IndependentOfKeyOrder ==
    Flattened => proccess(payload, ~reversed) = record

\* the node is neither a mapping nor a list
IsScalar(x) == ~IsDict(x) /\ ~IsList(x)

\* every scalar leaf of obj at chain c is in the record under name + "__" + c
LeavesUnder(name, obj, pre) ==
    \A c \in ChainsOf(obj) :
        IsScalar(NodeAt(obj, c)) =>
            /\ Str(PathKey(name, pre \o c)) \in DOMAIN record.v
            /\ record.v[Str(PathKey(name, pre \o c))] = NodeAt(obj, c)

\* C16 as stated: the buildingProperties target is the top-level
\* buildingProperties when that is non-null, otherwise
\* property_raw.buildingProperties when property_raw is a mapping; in the
\* fallback case every scalar leaf at path p is in the record under both
\* buildingProperties__p and property_raw__buildingProperties__p.
C16_BuildingPropertiesFallback ==
    Flattened =>
        LET top == Get(payload, Str(S_buildingProperties))
            pr == Get(payload, K("property_raw"))
        IN  /\ top # None => LeavesUnder(S_buildingProperties, top, <<>>)
            /\ (top = None /\ IsDict(pr) /\ Get(pr, Str(S_buildingProperties)) # None) =>
                   LET nested == Get(pr, Str(S_buildingProperties))
                   IN  /\ LeavesUnder(S_buildingProperties, nested, <<>>)
                       /\ LeavesUnder(Lit["property_raw"], nested, <<Str(S_buildingProperties)>>)

\* C17 as stated: no key emitted by flatten has a path segment that comes
\* from a mapping key "__typename" (the keys a target adds are those of its
\* chains free of "__typename"), and every such chain k1..kn that ends in a
\* scalar leaf contributes the key prefix + k1 + "__" + ... + kn holding
\* that leaf.
C17_TypenameDroppedLeavesKept ==
    Flattened =>
        LET before == BeforeTargets
        IN  \A tg \in Targets :
                tg[2] # None =>
                    /\ \A kk \in DOMAIN record.v :
                           (kk.t = "str" /\ StartsWith(kk.v, tg[1])) =>
                               \/ kk \in DOMAIN before.v
                               \/ \E c \in ChainsOf(tg[2]) : LeafKey(tg[1], tg[2], c) = kk.v
                    /\ LeavesUnder(tg[1], tg[2], <<>>)

\* C18: whenever proccess returns a record, the record holds under each
\* directly-copied field name exactly the payload's top-level value of that
\* field (null when missing), whatever the char, top_info and
\* additional_info maps hold under that name; the payload parsed from the
\* characteristics price = "900000", m = "60.0" ends as price_pln = 900000,
\* area_m2 = 60.0, price_per_m2_pln = 15000.
C18_DirectFieldsAreTopLevelValues ==
    Flattened =>
        /\ \A i \in 1..Len(DirectFields) :
               /\ DirectFields[i] \in DOMAIN record.v
               /\ record.v[DirectFields[i]] = Get(payload, DirectFields[i])
        /\ payload = BasePayload =>
               /\ record.v[K("price_pln")] = PyInt(900000)
               /\ record.v[K("area_m2")] = PyFloat(60, 1)
               /\ record.v[K("price_per_m2_pln")] = PyInt(15000)

\* a parsed payload whose char map has an entry named price_pln and whose
\* top_info yields price_pln from "price_pln::5" has been flattened
C18_Witness ==
    /\ Flattened
    /\ IsDict(Get(payload, K("char")))
    /\ K("price_pln") \in DOMAIN Get(payload, K("char")).v
    /\ IsDict(Get(payload, K("top_info")))
    /\ Str(S_abc) \in DOMAIN Get(payload, K("top_info")).v
    /\ Get(payload, K("price_pln")) = PyInt(900000)
    /\ record.v[K("price_pln")] = PyInt(900000)
    /\ record.v[K("price")] = Str(S_900000)

(***************************************************************************)
(* bronze_ingestion.py: ListingPayload, UPSERT_SQL, upsert_broze_parsing.  *)
(* A datetime is [t |-> "datetime", v |-> seconds after the epoch]; a row  *)
(* of listings_bronze is a record of its columns (ingested_at, which no    *)
(* property here reads, is left out).                                      *)
(***************************************************************************)
DateTime(n) == [t |-> "datetime", v |-> n]

ValidationError == Raise("ValidationError")

\* the text "1970-01-01T00:00:0" that starts every ISO timestamp used here,
\* taken as one character
ISO == "1970-01-01T00:00:0"

S_Z == <<"Z">>

S_utc == <<"+", "0", "0", ":", "0", "0">>

\* datetime.fromisoformat(s) on the strings ISO d "+00:00"; other text is
\* not ISO 8601
fromisoformat(s) ==
    IF /\ Len(s) = 2 + Len(S_utc)
       /\ s[1] = ISO
       /\ IsDigit(s[2])
       /\ SubSeq(s, 3, Len(s)) = S_utc
    THEN DateTime(DigitVal(s[2]))
    ELSE Raise("ValueError")

\* ListingPayload.parse_dt followed by the datetime | None validation of the
\* field: a ValueError of the validator and a blank string both end as a
\* validation error
parse_dt(v) ==
    IF v = None THEN None
    ELSE IF v.t = "str" /\ Strip(v.v) # <<>>
    THEN LET s0 == Strip(v.v)
             s == IF EndsWith(s0, S_Z)
                  THEN SubSeq(s0, 1, Len(s0) - 1) \o S_utc
                  ELSE s0
             d == fromisoformat(s)
         IN  IF d.t = "raise" THEN ValidationError ELSE d
    ELSE ValidationError

\* ListingPayload.source: a string of 1..32 characters, then normalize_source
normalize_source(v) ==
    IF v.t = "str" /\ Len(v.v) >= 1 /\ Len(v.v) <= 32
    THEN Str(StrLower(Strip(v.v)))
    ELSE ValidationError

\* ListingPayload.status: str | None, then normalize_status
normalize_status(v) ==
    IF v = None THEN None
    ELSE IF v.t = "str" THEN Str(StrLower(Strip(v.v)))
    ELSE ValidationError

\* ListingPayload.ad_id: an int, or a string of decimal digits that is
\* converted to one
ValidateAdId(v) ==
    IF v.t = "int" THEN v
    ELSE IF v.t = "str" /\ v.v # <<>> /\ \A i \in 1..Len(v.v) : IsDigit(v.v[i])
    THEN PyInt(DigitsValue(v.v))
    ELSE ValidationError

S_scheme_sep == <<":", "/", "/">>

S_http == <<"h", "t", "t", "p">>

S_https == <<"h", "t", "t", "p", "s">>

S_slash == <<"/">>

\* s.find(sub), 0 when sub does not occur
IndexOf(s, sub) ==
    IF Contains(s, sub)
    THEN CHOOSE i \in 1..(Len(s) - Len(sub) + 1) :
             /\ SubSeq(s, i, i + Len(sub) - 1) = sub
             /\ \A j \in 1..(i - 1) : SubSeq(s, j, j + Len(sub) - 1) # sub
    ELSE 0

\* HttpUrl | None and the str() of line 114: the scheme must be http or
\* https and the host non-empty; scheme and host come back lower-cased and
\* an empty path comes back as "/"
HttpUrl(v) ==
    IF v = None THEN None
    ELSE IF v.t # "str" THEN ValidationError
    ELSE LET i == IndexOf(v.v, S_scheme_sep)
             scheme == StrLower(SubSeq(v.v, 1, i - 1))
             rest == SubSeq(v.v, i + 3, Len(v.v))
             j == IndexOf(rest, S_slash)
             host == IF j = 0 THEN rest ELSE SubSeq(rest, 1, j - 1)
             path == IF j = 0 THEN S_slash ELSE SubSeq(rest, j, Len(rest))
         IN  IF i = 0 \/ scheme \notin {S_http, S_https} \/ host = <<>>
             THEN ValidationError
             ELSE Str(scheme \o S_scheme_sep \o StrLower(host) \o path)

\* ListingPayload.model_validate: the validated fields, or the error
model_validate(payload_dict) ==
    IF ~IsDict(payload_dict) THEN ValidationError
    ELSE IF K("source") \notin DOMAIN payload_dict.v
            \/ K("ad_id") \notin DOMAIN payload_dict.v
    THEN ValidationError
    ELSE LET fields == [ source |-> normalize_source(payload_dict.v[K("source")]),
                         ad_id |-> ValidateAdId(payload_dict.v[K("ad_id")]),
                         url |-> HttpUrl(Get(payload_dict, K("url"))),
                         status |-> normalize_status(Get(payload_dict, K("status"))),
                         created_at |-> parse_dt(Get(payload_dict, K("created_at"))),
                         modified_at |-> parse_dt(Get(payload_dict, K("modified_at"))),
                         pushed_up_at |-> parse_dt(Get(payload_dict, K("pushed_up_at"))) ]
         IN  IF \E f \in DOMAIN fields : fields[f].t = "raise"
             THEN ValidationError
             ELSE fields

S_null == <<"n", "u", "l", "l">>

S_true == <<"t", "r", "u", "e">>

S_false == <<"f", "a", "l", "s", "e">>

\* the key json.dumps writes for a dict key
JsonKey(k) ==
    CASE k.t = "str" -> k
      [] k.t = "null" -> Str(S_null)
      [] k.t = "bool" -> Str(IF k.v THEN S_true ELSE S_false)
      [] OTHER -> Str(PyStr(k))

\* the jsonb value of CAST(json.dumps(x) AS jsonb): dict keys become
\* strings, everything else is kept
RECURSIVE json_dumps(_)
json_dumps(x) ==
    IF IsDict(x)
    THEN PyDict([jk \in { JsonKey(k) : k \in DOMAIN x.v } |->
                    json_dumps(x.v[CHOOSE k \in DOMAIN x.v : JsonKey(k) = jk])])
    ELSE IF IsList(x)
    THEN PyList([i \in 1..Len(x.v) |-> json_dumps(x.v[i])])
    ELSE x

\* COALESCE(a, b, ...)
RECURSIVE Coalesce(_)
Coalesce(xs) ==
    IF xs = <<>> THEN None
    ELSE IF Head(xs) # None THEN Head(xs)
    ELSE Coalesce(Tail(xs))

\* a variant of Greatest that keeps the stored value
Greatest_stored(a, b) == a

\* GREATEST(a, b) of two timestamps: NULL arguments are ignored, the result
\* is NULL when both are
Greatest(a, b) ==
    IF a = None THEN b
    ELSE IF b = None THEN a
    ELSE IF a.v >= b.v THEN a ELSE b

\* a variant of NewerOf that takes the incoming value
NewerOf_excluded(stored, excluded) == excluded

\* COALESCE(GREATEST(stored, EXCLUDED), stored, EXCLUDED) of lines 90-100
NewerOf(stored, excluded) == Coalesce(<<Greatest(stored, excluded), stored, excluded>>)

\* a variant of DoUpdate that leaves the stored row as it is
DoUpdate_nothing(row, excluded) == row

\* DO UPDATE SET ... of UPSERT_SQL on the stored row in conflict
DoUpdate(row, excluded) ==
    [ row EXCEPT
        !.url = excluded.url,
        !.status = excluded.status,
        !.created_at = Coalesce(<<excluded.created_at, row.created_at>>),
        !.modified_at = NewerOf(row.modified_at, excluded.modified_at),
        !.pushed_up_at = NewerOf(row.pushed_up_at, excluded.pushed_up_at),
        !.payload = excluded.payload ]

\* the rows of table that conflict with excluded on (source, ad_id)
Conflicts(table, excluded) ==
    { r \in table : r.source = excluded.source /\ r.ad_id = excluded.ad_id }

\* one execution of UPSERT_SQL: the id column's sequence yields the next
\* value for the proposed row, whether or not the row is inserted; the
\* statement returns the id of the inserted or updated row
ExecuteUpsert(params, table, seq) ==
    LET excluded == [id |-> seq + 1] @@ params
        conflict == Conflicts(table, excluded)
    IN  IF conflict = {}
        THEN [ result |-> PyInt(excluded.id),
               table |-> table \cup {excluded},
               seq |-> seq + 1 ]
        ELSE LET row == CHOOSE r \in conflict : TRUE
             IN  [ result |-> PyInt(row.id),
                   table |-> (table \ {row}) \cup {DoUpdate(row, excluded)},
                   seq |-> seq + 1 ]

\* the params of lines 111-121
ParamsOf(fields, payload_dict) ==
    [ source |-> fields.source.v,
      ad_id |-> fields.ad_id.v,
      url |-> fields.url,
      status |-> fields.status,
      created_at |-> fields.created_at,
      modified_at |-> fields.modified_at,
      pushed_up_at |-> fields.pushed_up_at,
      payload |-> json_dumps(payload_dict) ]

\* upsert_broze_parsing on a configured database: the returned id (or the
\* exception), the table and the id sequence after the call
upsert_broze_parsing(payload_dict, table, seq) ==
    LET fields == model_validate(payload_dict)
    IN  IF fields = ValidationError
        THEN [ result |-> ValidationError, table |-> table, seq |-> seq ]
        ELSE ExecuteUpsert(ParamsOf(fields, payload_dict), table, seq)

(***************************************************************************)
(* Payloads handed to upsert_broze_parsing.                                *)
(***************************************************************************)
S_Otodom_padded == <<" ", "O", "t", "o", "d", "o", "m", " ">>

S_space == <<" ">>

S_7 == <<"7">>

S_url_7 == <<"h", "t", "t", "p", "s", ":", "/", "/", "o", ".", "p", "l", "/", "7">>

S_url_upper == <<"H", "T", "T", "P", "S", ":", "/", "/", "O", ".", "p", "l">>

S_url_lower == <<"h", "t", "t", "p", "s", ":", "/", "/", "o", ".", "p", "l", "/">>

S_no_scheme == <<"o", ".", "p", "l">>

S_active == <<"a", "c", "t", "i", "v", "e">>

S_Removed_padded == <<" ", "R", "e", "m", "o", "v", "e", "d">>

S_removed == <<"r", "e", "m", "o", "v", "e", "d">>

\* ISO timestamps of the instant d, written with Z, with +00:00, padded
IsoZ(d) == Str(<<ISO, Digits[d + 1]>> \o S_Z)

IsoUtc(d) == Str(<<ISO, Digits[d + 1]>> \o S_utc)

IsoPadded(d) == Str(<<" ", ISO, Digits[d + 1]>> \o S_Z \o <<" ">>)

\* source and ad_id that pass validation
ValidIdentities ==
    { <<K("otodom"), PyInt(7)>>,
      <<Str(S_Otodom_padded), PyInt(7)>>,
      <<K("otodom"), PyInt(8)>>,
      <<Str(S_space), PyInt(7)>>,
      <<K("otodom"), Str(S_7)>> }

\* url, status and one more field of the listing
Contents ==
    { << <<K("url"), None>>, <<K("status"), None>> >>,
      << <<K("url"), Str(S_url_7)>>, <<K("status"), Str(S_active)>>,
         <<K("price_pln"), PyInt(900000)>> >>,
      << <<K("url"), Str(S_url_upper)>>, <<K("status"), Str(S_Removed_padded)>>,
         <<K("char"), PyDict((None :> PyInt(1)))>> >> }

\* created_at, modified_at, pushed_up_at
Stamps ==
    { <<None, None, None>>,
      <<IsoZ(1), IsoZ(1), None>>,
      <<None, IsoUtc(2), IsoPadded(1)>>,
      <<IsoZ(2), None, IsoZ(2)>> }

UpsertPayload(ident, content, stamps) ==
    DictOf(<< <<K("source"), ident[1]>>, <<K("ad_id"), ident[2]>>,
              <<K("created_at"), stamps[1]>>, <<K("modified_at"), stamps[2]>>,
              <<K("pushed_up_at"), stamps[3]>> >> \o content)

ValidUpsertPayloads ==
    { UpsertPayload(i, c, t) : i \in ValidIdentities, c \in Contents, t \in Stamps }

\* payloads that fail validation: the degraded parser results, an empty
\* source, a null ad_id, a url without scheme, a timestamp that is not ISO
InvalidUpsertPayloads ==
    DegradedPayloads \cup
    { UpsertPayload(<<Str(<<>>), PyInt(7)>>, <<>>, <<None, None, None>>),
      UpsertPayload(<<K("otodom"), None>>, <<>>, <<None, None, None>>),
      UpsertPayload(<<K("otodom"), PyInt(7)>>, << <<K("url"), Str(S_no_scheme)>> >>,
                    <<None, None, None>>),
      UpsertPayload(<<K("otodom"), PyInt(7)>>, <<>>, <<None, Str(S_x), None>>) }

UpsertPayloads == ValidUpsertPayloads \cup {BasePayload} \cup InvalidUpsertPayloads

(***************************************************************************)
(* A sequence of upsert_broze_parsing calls on an empty table.             *)
(***************************************************************************)
InitUpsert ==
    /\ pc = "start"
    /\ ParserIdle /\ FlattenIdle /\ BronzeIdle
    /\ BatchIdle
    /\ ScrapIdle
    /\ SessionIdle
    /\ LoopIdle

Upsert ==
    /\ Len(upserts) < MaxUpserts
    /\ \E payload_dict \in UpsertPayloads :
           LET r == upsert_broze_parsing(payload_dict, listings_bronze, id_seq)
           IN  /\ listings_bronze' = r.table
               /\ id_seq' = r.seq
               /\ upserts' = Append(upserts,
                                    [payload_dict |-> payload_dict, result |-> r.result])
    /\ UNCHANGED <<pc, text, parsed, html_text, keep_ad_raw, out, chars, char_map,
                   items, info_kv, flattenVars>>
    /\ UNCHANGED batchVars
    /\ UNCHANGED scrapVars
    /\ UNCHANGED sessionVars
    /\ UNCHANGED loopVars

NextUpsert == Upsert

SpecUpsert == InitUpsert /\ [][NextUpsert]_vars

(***************************************************************************)
(* Properties of upsert_broze_parsing (SpecUpsert).                         *)
(***************************************************************************)
\* the i-th call returned an id
Returned(i) == upserts[i].result.t = "int"

\* the statement parameters of the i-th call
ParamsAt(i) ==
    ParamsOf(model_validate(upserts[i].payload_dict), upserts[i].payload_dict)

\* the i-th call returned an id and upserted the pair of row r
UpsertOf(i, r) ==
    /\ Returned(i)
    /\ ParamsAt(i).source = r.source
    /\ ParamsAt(i).ad_id = r.ad_id

\* C19: after any sequence of calls listings_bronze holds exactly one row
\* per (source, ad_id) that was upserted, the pair being the one the
\* statement received from validation; the row's id is the id its first
\* upsert returned and every later upsert of the pair returned it too; the
\* row's url, status and payload are the ones the most recent upsert of the
\* pair sent.
C19_OneRowPerPairLatestWins ==
    /\ \A i \in 1..Len(upserts) :
           Returned(i) => Cardinality({ r \in listings_bronze : UpsertOf(i, r) }) = 1
    /\ \A r \in listings_bronze :
           LET calls == { i \in 1..Len(upserts) : UpsertOf(i, r) }
           IN  /\ calls # {}
               /\ \A i \in calls : upserts[i].result = PyInt(r.id)
               /\ \A i \in calls :
                      (\A j \in calls : j <= i) =>
                          /\ r.url = ParamsAt(i).url
                          /\ r.status = ParamsAt(i).status
                          /\ r.payload = ParamsAt(i).payload

\* a pair was upserted twice, written " Otodom " and "otodom", with
\* different urls, statuses and payloads: one row, the first id, the second
\* call's content
C19_Witness ==
    /\ Len(upserts) = 2
    /\ upserts[1].payload_dict.v[K("source")] = Str(S_Otodom_padded)
    /\ upserts[2].payload_dict.v[K("source")] = K("otodom")
    /\ Get(upserts[1].payload_dict, K("url")) = Str(S_url_7)
    /\ Get(upserts[2].payload_dict, K("url")) = Str(S_url_upper)
    /\ upserts[1].result = PyInt(1)
    /\ upserts[2].result = PyInt(1)
    /\ id_seq = 2
    /\ Cardinality(listings_bronze) = 1
    /\ \A r \in listings_bronze :
           /\ r.id = 1
           /\ r.url = Str(S_url_lower)
           /\ r.status = Str(S_removed)
           /\ r.payload = json_dumps(upserts[2].payload_dict)
           /\ r.payload # json_dumps(upserts[1].payload_dict)

\* x is the greater of a and b, a null on either side being ignored
GreaterOf(x, a, b) ==
    /\ x \in {a, b}
    /\ (a # None \/ b # None) => x # None
    /\ \A y \in {a, b} \ {None} : x.v >= y.v

\* the timestamp t2 of a row follows the stored t and the incoming one
Advances(t, incoming, t2) ==
    /\ GreaterOf(t2, t, incoming)
    /\ t # None => t2 # None /\ t2.v >= t.v

\* C20: in every step each stored row is still there, and its modified_at
\* and pushed_up_at equal the greater of the value stored before and the
\* value the call brought for the row's pair (null when the call failed or
\* was for another pair), a null on either side being ignored: neither
\* column decreases or returns to null; a row inserted by the step starts
\* with the incoming values.
C20_TimestampsNeverRegress ==
    [][ LET n == Len(upserts')
            call == upserts'[n]
            fields == model_validate(call.payload_dict)
            Incoming(r, col) ==
                IF /\ call.result.t = "int"
                   /\ fields.source.v = r.source
                   /\ fields.ad_id.v = r.ad_id
                THEN fields[col]
                ELSE None
        IN  /\ \A r \in listings_bronze :
                   \E r2 \in listings_bronze' :
                       /\ r2.source = r.source /\ r2.ad_id = r.ad_id
                       /\ Advances(r.modified_at, Incoming(r, "modified_at"),
                                   r2.modified_at)
                       /\ Advances(r.pushed_up_at, Incoming(r, "pushed_up_at"),
                                   r2.pushed_up_at)
            /\ \A r2 \in listings_bronze' :
                   Conflicts(listings_bronze, r2) = {} =>
                       /\ r2.modified_at = Incoming(r2, "modified_at")
                       /\ r2.pushed_up_at = Incoming(r2, "pushed_up_at")
      ]_vars

\* a row stored with modified_at 2 and pushed_up_at 1 was upserted again
\* with modified_at 1 and no pushed_up_at, and holds 2 and 1
C20_Witness ==
    /\ Len(upserts) = 2
    /\ Returned(1) /\ Returned(2)
    /\ ParamsAt(1).source = ParamsAt(2).source
    /\ ParamsAt(1).ad_id = ParamsAt(2).ad_id
    /\ ParamsAt(1).modified_at = DateTime(2)
    /\ ParamsAt(1).pushed_up_at = DateTime(1)
    /\ ParamsAt(2).modified_at = DateTime(1)
    /\ ParamsAt(2).pushed_up_at = None
    /\ \E r \in listings_bronze :
           /\ UpsertOf(2, r)
           /\ r.modified_at = DateTime(2)
           /\ r.pushed_up_at = DateTime(1)

\* the timestamp recorded under the key col inside the stored payload of r
PayloadStamp(r, col) == parse_dt(Get(r.payload, K(col)))

\* the timestamps the upserts of the pair of r carried in the column col
Carried(r, col) ==
    { ParamsAt(i)[col] : i \in { j \in 1..Len(upserts) : UpsertOf(j, r) } } \ {None}

\* C27 (as claimed): after any sequence of upserts the row's modified_at and
\* pushed_up_at columns equal the modified_at and pushed_up_at recorded
\* inside the row's stored payload.
C27_ColumnsEqualPayload ==
    \A r \in listings_bronze :
        /\ r.modified_at = PayloadStamp(r, "modified_at")
        /\ r.pushed_up_at = PayloadStamp(r, "pushed_up_at")

\* C27 (amended): after any sequence of upserts each of the row's
\* modified_at and pushed_up_at columns is the greatest value any upsert of
\* the pair carried (null when none carried one): it is never older than
\* the value recorded inside the stored payload, and equals it whenever the
\* stored payload carries the greatest value.
C27_ColumnsNotOlderThanPayload ==
    \A r \in listings_bronze :
        \A col \in {"modified_at", "pushed_up_at"} :
            LET carried == Carried(r, col)
                inside == PayloadStamp(r, col)
            IN  /\ carried = {} => r[col] = None
                /\ carried # {} =>
                       /\ r[col] \in carried
                       /\ \A t \in carried : r[col].v >= t.v
                /\ inside # None => r[col] # None /\ r[col].v >= inside.v
                /\ (inside # None /\ \A t \in carried : inside.v >= t.v)
                       => r[col] = inside

\* a pair was upserted with modified_at 2 and then with modified_at 1: the
\* column holds 2 and the stored payload records 1
C27_Witness ==
    /\ Len(upserts) = 2
    /\ \E r \in listings_bronze :
           /\ UpsertOf(1, r) /\ UpsertOf(2, r)
           /\ ParamsAt(1).modified_at = DateTime(2)
           /\ r.modified_at = DateTime(2)
           /\ PayloadStamp(r, "modified_at") = DateTime(1)
           /\ r.payload = ParamsAt(2).payload

\* the payload lacks an integer ad_id or a non-empty source
LacksIdentity(payload_dict) ==
    \/ ~IsDict(payload_dict)
    \/ Get(payload_dict, K("ad_id")).t # "int"
    \/ Get(payload_dict, K("source")).t # "str"
    \/ Get(payload_dict, K("source")).v = <<>>

\* C28: a call of upsert_broze_parsing on a payload that lacks an integer
\* ad_id or a non-empty source (every degraded parser result is one) ends in
\* a validation error and leaves listings_bronze as it was; every row of
\* listings_bronze has an integer ad_id and a trimmed, lower-cased,
\* non-empty source.
C28_RowsHaveIdentity ==
    [][ LET call == upserts'[Len(upserts')]
        IN  /\ LacksIdentity(call.payload_dict) =>
                   /\ call.result = ValidationError
                   /\ listings_bronze' = listings_bronze
            /\ \A r \in listings_bronze' :
                   /\ r.ad_id \in Int
                   /\ r.source # <<>>
                   /\ r.source = StrLower(Strip(r.source))
      ]_vars

(***************************************************************************)
(* Further properties of ExtractPayload.proccess (SpecFlatten).            *)
(***************************************************************************)
\* C29: every key of a record returned by proccess for a payload the parser
\* produced is a non-empty string, the information values written as
\* `key::value` or as a bare sentinel such as `::n` included.
C29_KeysAreNonEmptyStrings ==
    (Flattened /\ payload \in ParsedPayloads) =>
        \A k \in DOMAIN record.v : k.t = "str" /\ k.v # <<>>

\* the record has the key name or a key that begins with name + "__"
LeavesTrace(name) ==
    \E k \in DOMAIN record.v :
        k.t = "str" /\ (k.v = name \/ StartsWith(k.v, name \o S_sep))

\* C30: every record returned by proccess has a key that is property_raw or
\* begins with property_raw__, and a key that is buildingProperties or
\* begins with buildingProperties__, whether the sub-object is null, an
\* empty mapping or populated.
C30_TargetsLeaveTrace ==
    Flattened =>
        /\ LeavesTrace(Lit["property_raw"])
        /\ LeavesTrace(S_buildingProperties)

(***************************************************************************)
(* bronze_to_silver.py: process_payloads.  A DataFrame is                  *)
(* [t |-> "frame", v |-> its rows]; a row holds the values of its record   *)
(* and NaN in the columns its record lacks (dtype inference is left out).  *)
(***************************************************************************)
NaN == [t |-> "nan", v |-> 0]

\* payload_column.apply(lambda x: ExtractPayload().proccess(x)).to_list():
\* the records in order, or the first exception
RECURSIVE ApplyProccess(_, _)
ApplyProccess(column, rev) ==
    IF column = <<>> THEN PyList(<<>>)
    ELSE LET first == proccess(Head(column), rev)
         IN  IF first.t = "raise" THEN first
             ELSE LET rest == ApplyProccess(Tail(column), rev)
                  IN  IF rest.t = "raise" THEN rest
                      ELSE PyList(<<first>> \o rest.v)

\* pd.DataFrame(records): one row per record over the union of their keys
DataFrame(records) ==
    LET columns == UNION { DOMAIN records[i].v : i \in 1..Len(records) }
    IN  [ t |-> "frame",
          v |-> [i \in 1..Len(records) |->
                    [c \in columns |->
                        IF c \in DOMAIN records[i].v THEN records[i].v[c] ELSE NaN]] ]

process_payloads(column, rev) ==
    LET records == ApplyProccess(column, rev)
    IN  IF records.t = "raise" THEN records ELSE DataFrame(records.v)

\* the stored payloads of the batches: three that flatten, and four that
\* do not (two degraded parser results, a payload without its top_info map,
\* a parsed payload with a number among its information values)
BatchPayloads ==
    UNION { { base,
              SetTargets(base, Obj(<< <<K("type"), Str(S_x)>> >>), Missing),
              SetTargets(base, None, Obj(<< <<Str(S_b), PyInt(3)>> >>)),
              Without(base, K("top_info")) } : base \in {BasePayload} }
    \cup
    { parse_otodom_html_v2(
          PageOf(Obj(<< <<K("id"), PyInt(7)>>,
                        <<K("additionalInformation"),
                          InfoList(<< <<K("lift"), PyList(<<PyInt(1)>>)>> >>)>> >>)),
          FALSE) }
    \cup DegradedPayloads

InitBatch ==
    /\ pc = "start"
    /\ payload_column \in SeqsUpTo(BatchPayloads, MaxBatch)
    /\ reversed \in BOOLEAN
    /\ res = None
    /\ payload = None /\ record = None
    /\ ParserIdle /\ BronzeIdle
    /\ ScrapIdle
    /\ SessionIdle
    /\ LoopIdle

ProcessPayloads ==
    /\ pc = "start"
    /\ res' = process_payloads(payload_column, reversed)
    /\ pc' = "done"
    /\ UNCHANGED <<text, parsed, html_text, keep_ad_raw, out, chars, char_map, items, info_kv>>
    /\ UNCHANGED <<flattenVars, bronzeVars, payload_column>>
    /\ UNCHANGED scrapVars
    /\ UNCHANGED sessionVars
    /\ UNCHANGED loopVars

NextBatch == ProcessPayloads

SpecBatch == InitBatch /\ [][NextBatch]_vars

\* the positions of the batch whose payload flattens
Flattens == { i \in 1..Len(payload_column) : proccess(payload_column[i], reversed).t = "dict" }

\* C22: process_payloads returns a table that holds, for every payload of
\* the batch that flattens, a row with the values of its record, whatever
\* the other payloads of the batch do.
C22_RowLevelIsolation ==
    pc = "done" =>
        \A i \in Flattens :
            /\ res.t = "frame"
            /\ \E n \in 1..Len(res.v) :
                   LET rec == proccess(payload_column[i], reversed)
                   IN  \A c \in DOMAIN rec.v : res.v[n][c] = rec.v[c]

(***************************************************************************)
(* hard_scrapper.py: parse_html.  A page is what the soup finds in it:     *)
(*   price_tag, price_m2_tag  the text of the tag, or None when absent     *)
(*   breadcrumbs              the texts of the breadcrumb links            *)
(*   script, data             as for parse_otodom_html_v2                  *)
(*   containers               per characteristic block, its label texts    *)
(***************************************************************************)
E_OGONEK == "e_ogonek"

N_ACUTE == "n_acute"

L_STROKE == "l_stroke"

S_ACUTE == "s_acute"

Z_DOT == "z_dot"

\* re.sub(r"\D", "", s)
RECURSIVE OnlyDigits(_)
OnlyDigits(s) ==
    IF s = <<>> THEN <<>>
    ELSE (IF IsDigit(Head(s)) THEN <<Head(s)>> ELSE <<>>) \o OnlyDigits(Tail(s))

\* int(re.sub(r"\D", "", s)): int("") is a ValueError
IntOfDigits(s) ==
    IF OnlyDigits(s) = <<>> THEN Raise("ValueError") ELSE PyInt(DigitsValue(OnlyDigits(s)))

\* re.sub(r"[^\d.,]", "", s)
RECURSIVE OnlyNumeric(_)
OnlyNumeric(s) ==
    IF s = <<>> THEN <<>>
    ELSE (IF IsDigit(Head(s)) \/ Head(s) \in {".", ","} THEN <<Head(s)>> ELSE <<>>)
         \o OnlyNumeric(Tail(s))

\* float(s) for a text of digits and dots: digits with at most one dot
FloatOfText(s) ==
    IF /\ Cardinality({ i \in 1..Len(s) : s[i] = "." }) <= 1
       /\ \E i \in 1..Len(s) : IsDigit(s[i])
    THEN FloatOfGroup(s)
    ELSE Raise("ValueError")

\* float(re.sub(r"[^\d.,]", "", s).replace(",", "."))
AreaOfText(s) == FloatOfText(ReplaceChar(OnlyNumeric(s), ",", "."))

\* s.strip(cs)
RECURSIVE StripChars(_, _)
StripChars(s, cs) ==
    IF s = <<>> THEN s
    ELSE IF s[1] \in cs THEN StripChars(Tail(s), cs)
    ELSE IF s[Len(s)] \in cs THEN StripChars(SubSeq(s, 1, Len(s) - 1), cs)
    ELSE s

\* s.split(",")
RECURSIVE SplitCommas(_)
SplitCommas(s) ==
    IF \E i \in 1..Len(s) : s[i] = ","
    THEN LET i == CHOOSE j \in 1..Len(s) : s[j] = "," /\ \A k \in 1..(j - 1) : s[k] # ","
         IN  <<SubSeq(s, 1, i - 1)>> \o SplitCommas(SubSeq(s, i + 1, Len(s)))
    ELSE <<s>>

\* [x.strip() for x in s.split(",") if x.strip()]
StrippedParts(s) ==
    LET parts == SplitCommas(s)
        RECURSIVE Keep(_)
        Keep(ps) ==
            IF ps = <<>> THEN <<>>
            ELSE (IF Strip(Head(ps)) # <<>> THEN <<Str(Strip(Head(ps)))>> ELSE <<>>)
                 \o Keep(Tail(ps))
    IN  PyList(Keep(parts))

\* obj[k] for a string k
Subscript(obj, k) ==
    IF IsDict(obj)
    THEN IF k \in DOMAIN obj.v THEN obj.v[k] ELSE Raise("KeyError")
    ELSE Raise("TypeError")

normalize_map ==
    (Str(<<"P", "o", "w", "i", "e", "r", "z", "c", "h", "n", "i", "a">>)
        :> Str(<<"a", "r", "e", "a">>)) @@
    (Str(<<"L", "i", "c", "z", "b", "a", " ", "p", "o", "k", "o", "i">>)
        :> Str(<<"r", "o", "o", "m", "s">>)) @@
    (Str(<<"O", "g", "r", "z", "e", "w", "a", "n", "i", "e">>)
        :> Str(<<"h", "e", "a", "t", "i", "n", "g">>)) @@
    (Str(<<"P", "i", E_OGONEK, "t", "r", "o">>)
        :> Str(<<"f", "l", "o", "o", "r">>)) @@
    (Str(<<"C", "z", "y", "n", "s", "z">>)
        :> Str(<<"c", "z", "y", "n", "s", "z">>)) @@
    (Str(<<"S", "t", "a", "n", " ", "w", "y", "k", "o", N_ACUTE, "c", "z", "e", "n", "i", "a">>)
        :> Str(<<"f", "i", "n", "i", "s", "h", "_", "s", "t", "a", "t", "u", "s">>)) @@
    (Str(<<"R", "y", "n", "e", "k">>)
        :> Str(<<"m", "a", "r", "k", "e", "t", "_", "t", "y", "p", "e">>)) @@
    (Str(<<"F", "o", "r", "m", "a", " ", "w", L_STROKE, "a", "s", "n", "o", S_ACUTE, "c", "i">>)
        :> Str(<<"o", "w", "n", "e", "r", "s", "h", "i", "p">>)) @@
    (Str(<<"D", "o", "s", "t", E_OGONEK, "p", "n", "e", " ", "o", "d">>)
        :> Str(<<"a", "v", "a", "i", "l", "a", "b", "l", "e", "_", "f", "r", "o", "m">>)) @@
    (Str(<<"T", "y", "p", " ", "o", "g", L_STROKE, "o", "s", "z", "e", "n", "i", "o", "d", "a", "w", "c", "y">>)
        :> Str(<<"s", "e", "l", "l", "e", "r", "_", "t", "y", "p", "e">>)) @@
    (Str(<<"I", "n", "f", "o", "r", "m", "a", "c", "j", "e", " ", "d", "o", "d", "a", "t", "k", "o", "w", "e">>)
        :> Str(<<"e", "x", "t", "r", "a", "_", "i", "n", "f", "o">>)) @@
    (Str(<<"R", "o", "k", " ", "b", "u", "d", "o", "w", "y">>)
        :> Str(<<"y", "e", "a", "r", "_", "b", "u", "i", "l", "t">>)) @@
    (Str(<<"W", "i", "n", "d", "a">>)
        :> Str(<<"l", "i", "f", "t">>)) @@
    (Str(<<"R", "o", "d", "z", "a", "j", " ", "z", "a", "b", "u", "d", "o", "w", "y">>)
        :> Str(<<"b", "u", "i", "l", "d", "i", "n", "g", "_", "t", "y", "p", "e">>)) @@
    (Str(<<"M", "a", "t", "e", "r", "i", "a", L_STROKE, " ", "b", "u", "d", "y", "n", "k", "u">>)
        :> Str(<<"b", "u", "i", "l", "d", "i", "n", "g", "_", "m", "a", "t", "e", "r", "i", "a", "l">>)) @@
    (Str(<<"O", "k", "n", "a">>)
        :> Str(<<"w", "i", "n", "d", "o", "w", "s">>)) @@
    (Str(<<"C", "e", "r", "t", "y", "f", "i", "k", "a", "t", " ", "e", "n", "e", "r", "g", "e", "t", "y", "c", "z", "n", "y">>)
        :> Str(<<"e", "n", "e", "r", "g", "y", "_", "c", "e", "r", "t", "i", "f", "i", "c", "a", "t", "e">>)) @@
    (Str(<<"B", "e", "z", "p", "i", "e", "c", "z", "e", N_ACUTE, "s", "t", "w", "o">>)
        :> Str(<<"s", "e", "c", "u", "r", "i", "t", "y">>)) @@
    (Str(<<"W", "y", "p", "o", "s", "a", Z_DOT, "e", "n", "i", "e">>)
        :> Str(<<"e", "q", "u", "i", "p", "m", "e", "n", "t">>)) @@
    (Str(<<"Z", "a", "b", "e", "z", "p", "i", "e", "c", "z", "e", "n", "i", "a">>)
        :> Str(<<"s", "e", "c", "u", "r", "i", "t", "y", "_", "d", "e", "v", "i", "c", "e", "s">>)) @@
    (Str(<<"M", "e", "d", "i", "a">>)
        :> Str(<<"m", "e", "d", "i", "a">>))

\* the fields parse_html splits at commas
ListFields ==
    << Str(<<"e", "x", "t", "r", "a", "_", "i", "n", "f", "o">>),
       Str(<<"e", "q", "u", "i", "p", "m", "e", "n", "t">>),
       Str(<<"m", "e", "d", "i", "a">>),
       Str(<<"s", "e", "c", "u", "r", "i", "t", "y">>),
       Str(<<"s", "e", "c", "u", "r", "i", "t", "y", "_", "d", "e", "v", "i", "c", "e", "s">>) >>

S_price == Lit["price"]

S_price_per_m2 == <<"p", "r", "i", "c", "e", "_", "p", "e", "r", "_", "m", "2">>

S_city == <<"c", "i", "t", "y">>

S_district == <<"d", "i", "s", "t", "r", "i", "c", "t">>

S_description == Lit["description"]

S_area == <<"a", "r", "e", "a">>

S_czynsz == <<"c", "z", "y", "n", "s", "z">>

S_year_built == <<"y", "e", "a", "r", "_", "b", "u", "i", "l", "t">>

S_latitude == Lit["latitude"]

S_longitude == Lit["longitude"]

\* lines 16-24: a tag that is found gives int(re.sub(r"\D", "", tag.text))
TagInt(data_, key, tag) ==
    IF data_.t = "raise" \/ tag = None THEN data_
    ELSE LET n == IntOfDigits(tag.v)
         IN  IF n.t = "raise" THEN n ELSE Put(data_, Str(key), n)

\* lines 27-31
Breadcrumbs(data_, crumbs) ==
    IF data_.t # "raise" /\ Len(crumbs) >= 3
    THEN Put(Put(data_, Str(S_city), Str(Strip(crumbs[Len(crumbs) - 1].v))),
             Str(S_district), Str(Strip(crumbs[Len(crumbs)].v)))
    ELSE data_

\* lines 34-37: script.string of a missing script, json.loads, the three
\* subscripts, ad.get
Description(data_, soup) ==
    IF data_.t = "raise" THEN data_
    ELSE IF soup.script = "absent" THEN Raise("AttributeError")
    ELSE IF soup.script = "empty" THEN Raise("TypeError")
    ELSE IF soup.script = "invalid" THEN Raise("JSONDecodeError")
    ELSE LET props == Subscript(soup.data, K("props"))
             pageProps == IF props.t = "raise" THEN props
                          ELSE Subscript(props, K("pageProps"))
             ad == IF pageProps.t = "raise" THEN pageProps
                   ELSE Subscript(pageProps, K("ad"))
         IN  IF ad.t = "raise" THEN ad
             ELSE IF ~IsDict(ad) THEN Raise("AttributeError")
             ELSE Put(data_, Str(S_description), Get(ad, K("description")))

\* lines 40-45
RECURSIVE Characteristics(_, _)
Characteristics(data_, containers) ==
    IF data_.t = "raise" \/ containers = <<>> THEN data_
    ELSE LET labels == Head(containers)
             next == IF Len(labels) >= 2
                     THEN Put(data_, Str(StripChars(labels[1].v, {":", " "})),
                              Str(Strip(labels[2].v)))
                     ELSE data_
         IN  Characteristics(next, Tail(containers))

\* lines 72-77: the keys of normalize_map are replaced by their names
Renamed(data_) ==
    IF data_.t = "raise" THEN data_
    ELSE
    LET moved == (DOMAIN data_.v) \cap (DOMAIN normalize_map)
        names == { normalize_map[k] : k \in moved }
    IN  PyDict([k \in ((DOMAIN data_.v) \ moved) \cup names |->
                   IF k \in names
                   THEN data_.v[CHOOSE m \in moved : normalize_map[m] = k]
                   ELSE data_.v[k]])

\* lines 80-82
RECURSIVE SplitLists(_, _)
SplitLists(data_, fields) ==
    IF data_.t = "raise" \/ fields = <<>> THEN data_
    ELSE LET f == Head(fields)
             next == IF f \in DOMAIN data_.v
                     THEN IF data_.v[f].t = "str"
                          THEN Put(data_, f, StrippedParts(data_.v[f].v))
                          ELSE Raise("AttributeError")
                     ELSE data_
         IN  SplitLists(next, Tail(fields))

\* lines 85-92: one numeric conversion of a field that is present
Converted(data_, key, as_float) ==
    IF data_.t = "raise" \/ Str(key) \notin DOMAIN data_.v THEN data_
    ELSE IF data_.v[Str(key)].t # "str" THEN Raise("TypeError")
    ELSE LET n == IF as_float THEN AreaOfText(data_.v[Str(key)].v)
                  ELSE IntOfDigits(data_.v[Str(key)].v)
         IN  IF n.t = "raise" THEN n ELSE Put(data_, Str(key), n)

\* lines 95-103: geolocator.geocode finds the address, finds nothing or
\* fails; a failure is swallowed
Geocoded(data_, geo) ==
    IF data_.t = "raise" THEN data_
    ELSE IF Str(S_city) \in DOMAIN data_.v /\ geo = "found"
    THEN Put(Put(data_, Str(S_latitude), PyFloat(50061, 1000)),
             Str(S_longitude), PyFloat(19938, 1000))
    ELSE data_

\* lines 10-105; an exception of a step passes through the steps after it
parse_html(soup, geo) ==
    LET d1 == TagInt(EmptyDict, S_price, soup.price_tag)
        d2 == TagInt(d1, S_price_per_m2, soup.price_m2_tag)
        d3 == Breadcrumbs(d2, soup.breadcrumbs)
        d4 == Description(d3, soup)
        d5 == Characteristics(d4, soup.containers)
        d6 == Renamed(d5)
        d7 == SplitLists(d6, ListFields)
        d8 == Converted(d7, S_area, TRUE)
        d9 == Converted(d8, S_czynsz, FALSE)
        d10 == Converted(d9, S_year_built, FALSE)
    IN  Geocoded(d10, geo)

(***************************************************************************)
(* The pages given to hard_scrapper.parse_html.                            *)
(***************************************************************************)
S_0_zl == <<"0", " ", "z", "l">>

S_zl == <<"z", "l">>

S_Powierzchnia_colon == <<"P", "o", "w", "i", "e", "r", "z", "c", "h", "n", "i", "a", ":">>

S_1_2_3 == <<"1", ".", "2", ".", "3">>

S_Czynsz == <<"C", "z", "y", "n", "s", "z">>

S_Media == <<"M", "e", "d", "i", "a">>

S_a_b_list == <<"a", ",", " ", "b", ",">>

\* the texts of a price tag: absent, a price, zero, no digit
PriceTags == { None, Str(S_900_000_zl), Str(S_0_zl), Str(S_zl) }

PriceM2Tags == { None, Str(S_15_267_zl_m2) }

BreadcrumbShapes == { <<>>, <<Str(S_x), Str(S_abc), Str(S_b)>> }

\* the label texts of a characteristic block
Containers ==
    { <<Str(S_x)>>,
      <<Str(S_Powierzchnia_colon), Str(S_68_71_m2)>>,
      <<Str(S_Powierzchnia_colon), Str(S_1_2_3)>>,
      <<Str(S_area), Str(S_60_0)>>,
      <<Str(S_price), Str(S_x)>>,
      <<Str(S_Czynsz), Str(S_zl)>>,
      <<Str(S_Media), Str(S_a_b_list), Str(S_x)>> }

\* the scripts: absent, not JSON, an ad with a description, no ad
Scripts ==
    { [script |-> "absent", data |-> None],
      [script |-> "invalid", data |-> None],
      [script |-> "json", data |-> Wrap(Obj(<< <<K("description"), Str(S_abc)>> >>))],
      [script |-> "json", data |-> Wrap(PyInt(5))] }

ListingPages ==
    { [ price_tag |-> p, price_m2_tag |-> m, breadcrumbs |-> b,
        script |-> sc.script, data |-> sc.data, containers |-> c ] :
        p \in PriceTags, m \in PriceM2Tags, b \in BreadcrumbShapes, sc \in Scripts,
        c \in SeqsUpTo(Containers, MaxContainers) }

(***************************************************************************)
(* One call of hard_scrapper.parse_html.                                   *)
(***************************************************************************)
InitScrap ==
    /\ pc = "start"
    /\ listing_page \in ListingPages
    /\ geocode \in {"found", "none", "raises"}
    /\ data = None
    /\ ParserIdle /\ FlattenIdle /\ BronzeIdle /\ BatchIdle
    /\ SessionIdle
    /\ LoopIdle

ParseHtml ==
    /\ pc = "start"
    /\ data' = parse_html(listing_page, geocode)
    /\ pc' = "done"
    /\ UNCHANGED <<text, parsed, html_text, keep_ad_raw, out, chars, char_map, items, info_kv>>
    /\ UNCHANGED <<flattenVars, bronzeVars, batchVars, listing_page, geocode>>
    /\ UNCHANGED sessionVars
    /\ UNCHANGED loopVars

NextScrap == ParseHtml

SpecScrap == InitScrap /\ [][NextScrap]_vars

\* C24: whenever parse_html returns, the result is a dictionary in which a
\* present price is an integer greater than 0 and a present area is a float.
C24_PriceAndAreaTyped ==
    (pc = "done" /\ data.t # "raise") =>
        /\ IsDict(data)
        /\ Str(S_price) \in DOMAIN data.v =>
               data.v[Str(S_price)].t = "int" /\ data.v[Str(S_price)].v > 0
        /\ Str(S_area) \in DOMAIN data.v => data.v[Str(S_area)].t = "float"

(***************************************************************************)
(* db.py: session_scope, around the statement of upsert_broze_parsing,     *)
(* followed one step at a time.  pc is the step the call is at:            *)
(*   "start" model_validate        "enter" entering session_scope          *)
(*   "body" session.execute        "commit" "rollback" "close"             *)
(*   "done" the call has returned or raised                                *)
(* The statement and the commit may fail.                                  *)
(***************************************************************************)
OperationalError == Raise("OperationalError")

\* a variant of session_scope_next without the finally clause: the session
\* is closed only after a commit
session_scope_next_no_finally(at, ok) ==
    CASE at = "body" -> IF ok THEN "commit" ELSE "rollback"
      [] at = "commit" -> IF ok THEN "close" ELSE "rollback"
      [] at = "rollback" -> "done"
      [] at = "close" -> "done"

\* the step of session_scope that follows the step at, which ended well
\* (ok) or with an exception: try / except / finally of lines 56-65
session_scope_next(at, ok) ==
    CASE at = "body" -> IF ok THEN "commit" ELSE "rollback"
      [] at = "commit" -> IF ok THEN "close" ELSE "rollback"
      [] at = "rollback" -> "close"
      [] at = "close" -> "done"

\* a table that holds one listing already
OneRowTable ==
    upsert_broze_parsing(
        UpsertPayload(<<K("otodom"), PyInt(7)>>,
                      << <<K("url"), Str(S_url_7)>>, <<K("status"), Str(S_active)>> >>,
                      <<IsoZ(1), IsoZ(1), None>>),
        {}, 0)

InitSession ==
    /\ pc = "start"
    /\ upsert_arg \in UpsertPayloads
    /\ engine \in BOOLEAN
    /\ \/ listings_bronze = {} /\ id_seq = 0
       \/ listings_bronze = OneRowTable.table /\ id_seq = OneRowTable.seq
    /\ upserts = <<>>
    /\ session_log = <<>> /\ pending = None /\ outcome = None
    /\ ParserIdle /\ FlattenIdle /\ BatchIdle /\ ScrapIdle
    /\ LoopIdle

\* line 109
Validate ==
    /\ pc = "start"
    /\ IF model_validate(upsert_arg) = ValidationError
       THEN outcome' = ValidationError /\ pc' = "done"
       ELSE outcome' = outcome /\ pc' = "enter"
    /\ UNCHANGED <<upsert_arg, engine, session_log, pending, bronzeVars>>
    /\ UNCHANGED <<text, parsed, html_text, keep_ad_raw, out, chars, char_map, items, info_kv>>
    /\ UNCHANGED <<flattenVars, batchVars, scrapVars>>
    /\ UNCHANGED loopVars

\* db.py lines 53-56
Enter ==
    /\ pc = "enter"
    /\ IF engine
       THEN /\ session_log' = Append(session_log, "begin")
            /\ pending' = listings_bronze
            /\ outcome' = outcome
            /\ pc' = "body"
       ELSE /\ outcome' = Raise("RuntimeError")
            /\ pc' = "done"
            /\ UNCHANGED <<session_log, pending>>
    /\ UNCHANGED <<upsert_arg, engine, bronzeVars>>
    /\ UNCHANGED <<text, parsed, html_text, keep_ad_raw, out, chars, char_map, items, info_kv>>
    /\ UNCHANGED <<flattenVars, batchVars, scrapVars>>
    /\ UNCHANGED loopVars

\* lines 124-125: the statement runs in the transaction, or fails
Execute ==
    /\ pc = "body"
    /\ \E ok \in BOOLEAN :
           /\ IF ok
              THEN LET r == ExecuteUpsert(ParamsOf(model_validate(upsert_arg), upsert_arg),
                                          pending, id_seq)
                   IN  /\ pending' = r.table
                       /\ id_seq' = r.seq
                       /\ outcome' = r.result
                       /\ session_log' = Append(session_log, "execute")
              ELSE /\ outcome' = OperationalError
                   /\ session_log' = Append(session_log, "execute failed")
                   /\ UNCHANGED <<pending, id_seq>>
           /\ pc' = session_scope_next("body", ok)
    /\ UNCHANGED <<upsert_arg, engine, listings_bronze, upserts>>
    /\ UNCHANGED <<text, parsed, html_text, keep_ad_raw, out, chars, char_map, items, info_kv>>
    /\ UNCHANGED <<flattenVars, batchVars, scrapVars>>
    /\ UNCHANGED loopVars

\* db.py line 58
Commit ==
    /\ pc = "commit"
    /\ \E ok \in BOOLEAN :
           /\ IF ok
              THEN /\ listings_bronze' = pending
                   /\ session_log' = Append(session_log, "commit")
                   /\ outcome' = outcome
              ELSE /\ outcome' = OperationalError
                   /\ session_log' = Append(session_log, "commit failed")
                   /\ UNCHANGED listings_bronze
           /\ pc' = session_scope_next("commit", ok)
    /\ UNCHANGED <<upsert_arg, engine, pending, id_seq, upserts>>
    /\ UNCHANGED <<text, parsed, html_text, keep_ad_raw, out, chars, char_map, items, info_kv>>
    /\ UNCHANGED <<flattenVars, batchVars, scrapVars>>
    /\ UNCHANGED loopVars

\* db.py lines 59-61
Rollback ==
    /\ pc = "rollback"
    /\ pending' = listings_bronze
    /\ session_log' = Append(session_log, "rollback")
    /\ pc' = session_scope_next("rollback", TRUE)
    /\ UNCHANGED <<upsert_arg, engine, outcome, bronzeVars>>
    /\ UNCHANGED <<text, parsed, html_text, keep_ad_raw, out, chars, char_map, items, info_kv>>
    /\ UNCHANGED <<flattenVars, batchVars, scrapVars>>
    /\ UNCHANGED loopVars

\* db.py lines 62-63
Close ==
    /\ pc = "close"
    /\ pending' = None
    /\ session_log' = Append(session_log, "close")
    /\ pc' = session_scope_next("close", TRUE)
    /\ UNCHANGED <<upsert_arg, engine, outcome, bronzeVars>>
    /\ UNCHANGED <<text, parsed, html_text, keep_ad_raw, out, chars, char_map, items, info_kv>>
    /\ UNCHANGED <<flattenVars, batchVars, scrapVars>>
    /\ UNCHANGED loopVars

NextSession == Validate \/ Enter \/ Execute \/ Commit \/ Rollback \/ Close

SpecSession == InitSession /\ [][NextSession]_vars

\* how often the event e is in the session log
Count(e) == Cardinality({ i \in 1..Len(session_log) : session_log[i] = e })

\* C23: when the statement fails the transaction is rolled back, the
\* session is closed, the exception reaches the caller and the statement
\* has run once only; the session is committed only after a statement that
\* did not fail, and once a session was opened the call ends with it closed.
C23_RollbackCloseAndPropagate ==
    /\ Count("commit") > 0 => SubSeq(session_log, 1, 3) = <<"begin", "execute", "commit">>
    /\ Count("execute") + Count("execute failed") <= 1
    /\ pc = "done" =>
           /\ Count("execute failed") > 0 =>
                  /\ session_log = <<"begin", "execute failed", "rollback", "close">>
                  /\ outcome = OperationalError
                  /\ listings_bronze \in { {}, OneRowTable.table }
           /\ session_log # <<>> =>
                  /\ session_log[Len(session_log)] = "close"
                  /\ Count("close") = 1
                  /\ pending = None
           /\ outcome.t = "int" <=> Count("commit") = 1

\* a call whose statement failed has ended
C23_Witness ==
    /\ pc = "done"
    /\ session_log = <<"begin", "execute failed", "rollback", "close">>
    /\ outcome = OperationalError
    /\ listings_bronze = OneRowTable.table

(***************************************************************************)
(* entrypoints/scrap_data_sequentially.py: the scraping loop, one step of  *)
(* a loop body at a time.  pc is the statement the script is at:           *)
(*   "check"  the head of the loop, up to the test of listing_row          *)
(*   "fetch"  load_and_save_html_to_minio       "save" HtmlFileCreate and  *)
(*   save_scraping_metadata    "load" load_html and parse_otodom_html_v2   *)
(*   "upsert" upsert_broze_parsing, the log line and the sleep             *)
(*   "ended"  the loop is over        "crashed" an exception left the loop *)
(* Object storage and the database may fail at every step that uses them.  *)
(***************************************************************************)
\* most listings the search yields in one run
MaxListings == 2

\* starts of the script in one behaviour
MaxRuns == 2

S_c == <<"c">>

S_d == <<"d">>

S_e == <<"e">>

S_underscore == <<"_">>

S_object == <<"o", "b", "j", "e", "c", "t">>

S_listings == <<"l", "i", "s", "t", "i", "n", "g", "s", "/">>

S_html == <<".", "h", "t", "m", "l">>

S_url_a == <<"h", "t", "t", "p", "s", ":", "/", "/", "o", ".", "p", "l", "/", "a">>

\* the characters safe_s3_key keeps, among those of the explored names
SafeChars == {"a", "b", "c", "d", "e", "x", "_", ".", "-"}

\* s with every run of underscores collapsed to one underscore
RECURSIVE CollapseUnderscores(_)
CollapseUnderscores(s) ==
    IF Len(s) < 2 THEN s
    ELSE IF s[1] = "_" /\ s[2] = "_" THEN CollapseUnderscores(Tail(s))
    ELSE <<s[1]>> \o CollapseUnderscores(Tail(s))

\* load_htmls.py, safe_s3_key of an ASCII name: unsafe characters become
\* underscores, runs of underscores collapse, underscores at the ends go,
\* and an empty result is "object"
safe_s3_key(name) ==
    IF name = <<>> THEN S_object
    ELSE LET replaced == [n \in 1..Len(name) |->
                             IF name[n] \in SafeChars THEN name[n] ELSE "_"]
             trimmed == StripChars(CollapseUnderscores(replaced), {"_"})
         IN  IF trimmed = <<>> THEN S_object ELSE trimmed

\* the object key of lines 167-174; the time stamp is the run and the
\* position of the listing, the loop sleeping at least a second between two
MinioKey(run, n, offer_id) ==
    Str(S_listings \o <<ToString(run), ToString(n)>> \o S_underscore
        \o safe_s3_key(offer_id) \o S_html)

\* get_urls, lines 120-135: the summary of one card; serves is what a GET of
\* its url gives: an exception, or a status with a body
ListingSummary(title, address, ad_id, serves) ==
    [ ad_id |-> ad_id, offer_id |-> title \o S_underscore \o address,
      url |-> S_url_a \o title \o address, title |-> title, address |-> address,
      serves |-> serves ]

\* a response of the given status and body
Response(status, body) == [ raises |-> FALSE, status |-> status, body |-> body ]

\* the request fails: no response
NoResponse == [ raises |-> TRUE, status |-> 0, body |-> None ]

\* the page of the ad with the given id
AdPage(id) == PageOf(Obj(<< <<K("id"), PyInt(id)>> >>))

\* the cards of the search: two ads, a second ad with the title and address
\* of the first, an ad whose page has no data script, an ad whose page is
\* gone, a card without address, an ad whose page does not answer
Cards ==
    { ListingSummary(S_a, S_x, PyInt(7), Response(200, AdPage(7))),
      ListingSummary(S_b, S_x, None, Response(200, AdPage(8))),
      ListingSummary(S_a, S_x, PyInt(9), Response(200, AdPage(9))),
      ListingSummary(S_c, S_x, PyInt(10), Response(200, [script |-> "absent", data |-> None])),
      ListingSummary(S_d, S_x, PyInt(11), Response(404, None)),
      ListingSummary(S_e, <<>>, PyInt(12), Response(200, AdPage(12))),
      ListingSummary(S_b, S_a, PyInt(13), NoResponse) }

\* the loop's counter of listings found in html_files, line 30
MAX_REPEATED_IDS == 50

\* the row of html_files with the given offer_id, or None
get_row_listing_html(table, offer_id) ==
    IF \E row \in table : row.offer_id = offer_id
    THEN CHOOSE row \in table : row.offer_id = offer_id
    ELSE None

\* load_htmls.py lines 139-177: the key and the bucket after
\* load_and_save_html_to_minio; ok is whether the upload works
load_and_save_html_to_minio(ad, key, objects, ok) ==
    IF ad.serves.raises THEN [ result |-> Raise("RequestException"), bucket |-> objects ]
    ELSE IF ad.serves.status # 200 THEN [ result |-> None, bucket |-> objects ]
    ELSE IF ~ok THEN [ result |-> Raise("ClientError"), bucket |-> objects ]
    ELSE [ result |-> key,
           bucket |-> { o \in objects : o.key # key }
                      \cup { [ key |-> key, body |-> ad.serves.body ] } ]

\* listing_table.py lines 13-20: the fields of HtmlFileCreate, validated
HtmlFileCreate(offer_id, url, key, address, title, ad_id) ==
    IF /\ Len(offer_id) \in 1..512
       /\ Len(url) >= 1
       /\ key.t = "str" /\ Len(key.v) \in 1..512
       /\ Len(address) \in 1..256
       /\ Len(title) \in 1..256
       /\ ad_id.t \in {"int", "null"}
    THEN [ t |-> "model", offer_id |-> offer_id, url |-> url, minio_key |-> key,
           address |-> address, title |-> title, ad_id |-> ad_id ]
    ELSE ValidationError

\* listing_table.py lines 43-59: html_files with the new row
save_scraping_metadata(db_object, table) ==
    table \cup { [ id |-> Cardinality(table) + 1, offer_id |-> db_object.offer_id,
                   url |-> db_object.url, minio_key |-> db_object.minio_key,
                   address |-> db_object.address, title |-> db_object.title,
                   ad_id |-> db_object.ad_id ] }

\* minio.py lines 50-54: the body stored under the key
load_html(objects, key) ==
    IF \E o \in objects : o.key = key
    THEN (CHOOSE o \in objects : o.key = key).body
    ELSE Raise("ClientError")

\* a variant of step_after that saves the metadata only after the parse
step_after_metadata_late(at) ==
    CASE at = "fetch" -> "load"
      [] at = "load" -> "save"
      [] at = "save" -> "upsert"
      [] at = "upsert" -> "check"

\* the statement that follows the statement at when it did not raise:
\* lines 61, 64-73, 76-79, 81-85 and back to the head of the loop
step_after(at) ==
    CASE at = "fetch" -> "save"
      [] at = "save" -> "load"
      [] at = "load" -> "upsert"
      [] at = "upsert" -> "check"

\* the listing the loop is at
Ad == ads[loop_i]

\* the trace with the steps of the listing the loop is at added
Done(names) ==
    trace \o [ n \in 1..Len(names) |-> [ run |-> runs, i |-> loop_i, step |-> names[n] ] ]

InitLoop ==
    /\ pc = "check"
    /\ ads \in SeqsUpTo(Cards, MaxListings)
    /\ max_items \in 0..MaxListings
    /\ loop_i = 1
    /\ max_repeated_ids = MAX_REPEATED_IDS
    /\ html_files = {} /\ bucket = {}
    /\ minio_key = None /\ parsed_json = None
    /\ trace = <<>>
    /\ runs = 1
    /\ ParserIdle /\ FlattenIdle /\ BronzeIdle /\ BatchIdle /\ ScrapIdle /\ SessionIdle

\* what no step of the loop changes
LoopFrame ==
    /\ UNCHANGED <<text, parsed, html_text, keep_ad_raw, out, chars, char_map, items, info_kv>>
    /\ UNCHANGED <<flattenVars, batchVars, scrapVars, sessionVars>>
    /\ UNCHANGED <<ads, max_items, runs>>

\* lines 45-59: the next listing of get_urls, if any, and the test whether
\* its offer_id is in html_files
Check ==
    /\ pc = "check"
    /\ IF loop_i > Len(ads) \/ loop_i - 1 >= max_items
       THEN pc' = "ended" /\ UNCHANGED <<loop_i, max_repeated_ids>>
       ELSE IF get_row_listing_html(html_files, Ad.offer_id) # None
       THEN /\ max_repeated_ids' = max_repeated_ids - 1
            /\ IF max_repeated_ids' <= 0
               THEN pc' = "ended" /\ UNCHANGED loop_i
               ELSE pc' = "check" /\ loop_i' = loop_i + 1
       ELSE pc' = "fetch" /\ UNCHANGED <<loop_i, max_repeated_ids>>
    /\ UNCHANGED <<html_files, bucket, minio_key, parsed_json, trace, bronzeVars>>
    /\ LoopFrame

\* line 61
Fetch ==
    /\ pc = "fetch"
    /\ \E ok \in BOOLEAN :
           LET r == load_and_save_html_to_minio(Ad, MinioKey(runs, loop_i, Ad.offer_id),
                                                bucket, ok)
           IN  IF r.result.t = "raise"
               THEN pc' = "crashed" /\ UNCHANGED <<bucket, minio_key, trace>>
               ELSE /\ bucket' = r.bucket
                    /\ minio_key' = r.result
                    /\ trace' = Done(IF r.result = None THEN <<"fetch">>
                                     ELSE <<"fetch", "upload">>)
                    /\ pc' = step_after("fetch")
    /\ UNCHANGED <<loop_i, max_repeated_ids, html_files, parsed_json, bronzeVars>>
    /\ LoopFrame

\* lines 64-73; the database may fail
Save ==
    /\ pc = "save"
    /\ \E ok \in BOOLEAN :
           LET db_object == HtmlFileCreate(Ad.offer_id, Ad.url, minio_key, Ad.address,
                                           Ad.title, Ad.ad_id)
           IN  IF db_object = ValidationError \/ ~ok
               THEN pc' = "crashed" /\ UNCHANGED <<html_files, trace>>
               ELSE /\ html_files' = save_scraping_metadata(db_object, html_files)
                    /\ trace' = Done(<<"save">>)
                    /\ pc' = step_after("save")
    /\ UNCHANGED <<loop_i, max_repeated_ids, bucket, minio_key, parsed_json, bronzeVars>>
    /\ LoopFrame

\* lines 76-79
Load ==
    /\ pc = "load"
    /\ LET file_string == IF minio_key = None THEN Raise("ClientError")
                          ELSE load_html(bucket, minio_key)
       IN  IF file_string = Raise("ClientError")
           THEN pc' = "crashed" /\ UNCHANGED <<parsed_json, trace>>
           ELSE LET p == parse_otodom_html_v2(file_string, FALSE)
                IN  IF p.t = "raise"
                    THEN /\ pc' = "crashed"
                         /\ trace' = Done(<<"load">>)
                         /\ UNCHANGED parsed_json
                    ELSE /\ parsed_json' = p
                         /\ trace' = Done(<<"load", "parse">>)
                         /\ pc' = step_after("load")
    /\ UNCHANGED <<loop_i, max_repeated_ids, html_files, bucket, minio_key, bronzeVars>>
    /\ LoopFrame

\* lines 81-85; the database may fail
UpsertParsed ==
    /\ pc = "upsert"
    /\ \E ok \in BOOLEAN :
           LET r == IF parsed_json = None THEN [ result |-> ValidationError ]
                    ELSE upsert_broze_parsing(parsed_json, listings_bronze, id_seq)
           IN  IF r.result.t = "raise" \/ ~ok
               THEN /\ pc' = "crashed"
                    /\ UNCHANGED <<loop_i, trace, bronzeVars>>
               ELSE /\ listings_bronze' = r.table
                    /\ id_seq' = r.seq
                    /\ upserts' = Append(upserts, [payload_dict |-> parsed_json,
                                                   result |-> r.result])
                    /\ trace' = Done(<<"upsert">>)
                    /\ IF step_after("upsert") = "check"
                       THEN pc' = "check" /\ loop_i' = loop_i + 1
                       ELSE pc' = step_after("upsert") /\ UNCHANGED loop_i
    /\ UNCHANGED <<max_repeated_ids, html_files, bucket, minio_key, parsed_json>>
    /\ LoopFrame

\* the script is started again: the search yields the same listings, the
\* tables and the bucket are as the last run left them
Rerun ==
    /\ pc \in {"ended", "crashed"}
    /\ runs < MaxRuns
    /\ runs' = runs + 1
    /\ pc' = "check"
    /\ loop_i' = 1
    /\ max_repeated_ids' = MAX_REPEATED_IDS
    /\ minio_key' = None /\ parsed_json' = None
    /\ UNCHANGED <<ads, max_items, html_files, bucket, trace, bronzeVars>>
    /\ UNCHANGED <<text, parsed, html_text, keep_ad_raw, out, chars, char_map, items, info_kv>>
    /\ UNCHANGED <<flattenVars, batchVars, scrapVars, sessionVars>>

NextLoop == Check \/ Fetch \/ Save \/ Load \/ UpsertParsed \/ Rerun

SpecLoop == InitLoop /\ [][NextLoop]_vars

\* the place of a step in the body of the loop
StepNo == [ fetch |-> 1, upload |-> 2, save |-> 3, load |-> 4, parse |-> 5, upsert |-> 6 ]

\* the trace entries a and b are steps of the same listing of the same run
SameListing(a, b) == a.run = b.run /\ a.i = b.i

Unfetched(ad) == ad.serves.raises \/ ad.serves.status # 200

\* the page of the listing is fetched and its parse is rejected by the
\* bronze upsert
Rejected(ad) ==
    /\ ~Unfetched(ad)
    /\ model_validate(parse_otodom_html_v2(ad.serves.body, FALSE)) = ValidationError

\* the listings of this run that come after the one the loop is at
LaterListings == { j \in 1..Len(ads) : j > loop_i /\ j - 1 < max_items }

\* the listing at position j went through the loop in this run, or is
\* recorded in html_files
Handled(j) ==
    \/ \E n \in 1..Len(trace) : trace[n] = [ run |-> runs, i |-> j, step |-> "upsert" ]
    \/ get_row_listing_html(html_files, ads[j].offer_id) # None

\* C21: when a listing's page cannot be fetched or its parse is rejected by
\* the bronze upsert, the loop goes on: every later listing the search
\* yields is processed in the same run.
C21_FailureDoesNotStopLoop ==
    (pc = "crashed" /\ (Unfetched(Ad) \/ Rejected(Ad))) =>
        \A j \in LaterListings : Handled(j)

\* the html_files row h has its parsed row in listings_bronze
HasBronze(h) ==
    LET stored == load_html(bucket, h.minio_key)
    IN  /\ stored # Raise("ClientError")
        /\ \E r \in listings_bronze :
               r.payload = json_dumps(parse_otodom_html_v2(stored, FALSE))

\* C26: whenever the loop is between two listings or a run has ended,
\* normally or by an exception, in the first run or a later one, every row
\* of html_files has its parsed row in listings_bronze.
C26_SavedOffersHaveBronze ==
    pc \in {"check", "ended", "crashed"} => \A h \in html_files : HasBronze(h)

====
